---- MODULE Spec2Model ----
(***************************************************************************)
(* A model of the simulation core of FS2D (src/fs2d.js): the tile grid,    *)
(* updateEntityPosition, the crop growth state machine, the vehicle and    *)
(* attachment handlers and the per-frame gameLoop.                         *)
(*                                                                         *)
(* Units.  Lengths and velocities are kept in half pixels, because every   *)
(* length of the source is a multiple of 0.5 px (GRAVITY = 0.5, tractor    *)
(* speed 2.5): a source length of p pixels is the integer 2p here.  Fuel   *)
(* is kept in hundredths (fuelConsumption 0.05 is 5).  Time is Date.now()  *)
(* in milliseconds.                                                        *)
(*                                                                         *)
(* React.  Every callback of GameProvider is a closure over the state      *)
(* values of the render that created it (useCallback), while its updater   *)
(* functions (setX(prev => ...)) receive the newest value.  The model      *)
(* keeps both: the state variables are the newest values, and `snap` is    *)
(* the copy that the registered callbacks (the animation-frame callback    *)
(* and the key listeners) captured.  gameLoop re-registers itself for the  *)
(* next frame (line 1237), and only the effects that follow a render       *)
(* replace the registered callbacks by fresh ones (lines 1328-1331,        *)
(* 1333-1360): Commit models that.  A key event is a discrete event, whose *)
(* updates React renders before anything else runs, so a key action ends   *)
(* with the callbacks refreshed; the updates of a frame are rendered by a  *)
(* later task, so key events and further frames can run before it.         *)
(***************************************************************************)
EXTENDS Integers, Sequences, FiniteSets, TLC

(***************************************************************************)
(* Constants of the source                                                 *)
(***************************************************************************)
TILE_SIZE == 20
\* one tile in half pixels
TS == 2 * TILE_SIZE
\* GRAVITY = 0.5 px per tick, in half pixels
GRAVITY == 1

\* The grid of the source is 150 x 30 tiles; the model keeps a cut of it.
WORLD_WIDTH_TILES == 32
WORLD_HEIGHT_TILES == 7
WORLD_WIDTH_PIXELS == WORLD_WIDTH_TILES * TS
WORLD_HEIGHT_PIXELS == WORLD_HEIGHT_TILES * TS

GROWTH_TIME_PER_STAGE == 5000

\* TILE_TYPE
SKY == 0
GRASS == 1
DIRT == 2
TILLED == 3
CROP_PLANTED == 4
CROP_GROWN == 5

\* CROP_TYPE
CropTypes == {"wheat", "corn", "potato"}

\* CROP_STAGE
SEED == 0
YOUNG == 1
MATURE == 2

\* crop: null
\* plantedTime is a time in ms; plantedTimeType is what typeof plantedTime
\* gives, "number" for the Date.now() of a planting (lines 849, 973) and
\* "object" for a Date
NoCrop == [type |-> "null", stage |-> 0, plantedTime |-> 0,
           plantedTimeType |-> "undefined"]

Rows == 0 .. (WORLD_HEIGHT_TILES - 1)
Cols == 0 .. (WORLD_WIDTH_TILES - 1)

\* Math.floor(WORLD_HEIGHT_TILES * 0.75)
groundStartRow == (WORLD_HEIGHT_TILES * 3) \div 4
groundLevelY == groundStartRow * TS

(***************************************************************************)
(* updateEntityPosition                                                    *)
(***************************************************************************)
\* the collision branch of one tile (r, c), lines 214-240
CollideTile(e, world, r, c) ==
    IF ~(c >= 0 /\ c < WORLD_WIDTH_TILES /\ r >= 0 /\ r < WORLD_HEIGHT_TILES)
    THEN e
    ELSE IF world[r][c].type = SKY
    THEN e
    ELSE LET tileTop == r * TS
             tileBottom == tileTop + TS
             tileLeft == c * TS
             tileRight == tileLeft + TS
         IN IF ~(e.x < tileRight /\ e.x + e.width > tileLeft /\
                 e.y < tileBottom /\ e.y + e.height > tileTop)
            THEN e
            ELSE IF e.vy > 0 /\ e.y + e.height <= tileBottom /\ e.y + e.height >= tileTop
            THEN [e EXCEPT !.y = tileTop - e.height, !.vy = 0, !.onGround = TRUE]
            ELSE IF e.vy < 0
            THEN [e EXCEPT !.y = tileBottom, !.vy = 0]
            ELSE IF e.vx > 0
            THEN [e EXCEPT !.x = tileLeft - e.width, !.vx = 0]
            ELSE IF e.vx < 0
            THEN [e EXCEPT !.x = tileRight, !.vx = 0]
            ELSE e

\* the two nested for loops, lines 212-243: rows top to bottom, columns left to right
RECURSIVE ResolveFrom(_, _, _, _, _, _, _)
ResolveFrom(e, world, r, c, leftTile, rightTile, bottomTile) ==
    IF r > bottomTile \/ leftTile > rightTile
    THEN e
    ELSE LET e2 == CollideTile(e, world, r, c)
         IN IF c < rightTile
            THEN ResolveFrom(e2, world, r, c + 1, leftTile, rightTile, bottomTile)
            ELSE ResolveFrom(e2, world, r + 1, leftTile, leftTile, rightTile, bottomTile)

\* lines 198-205: gravity, integration, the world-edge clamp
Integrate(entity) ==
    LET vy1 == entity.vy + GRAVITY
        y1 == entity.y + vy1
        x1 == entity.x + entity.vx
        x2 == IF x1 < 0 THEN 0 ELSE x1
        x3 == IF x2 + entity.width > WORLD_WIDTH_PIXELS
              THEN WORLD_WIDTH_PIXELS - entity.width ELSE x2
    IN [entity EXCEPT !.vy = vy1, !.y = y1, !.x = x3, !.onGround = FALSE]

updateEntityPosition(entity, world) ==
    LET e1 == Integrate(entity)
        leftTile == e1.x \div TS
        rightTile == (e1.x + e1.width - 2) \div TS
        topTile == e1.y \div TS
        bottomTile == (e1.y + e1.height - 2) \div TS
    IN ResolveFrom(e1, world, topTile, leftTile, leftTile, rightTile, bottomTile)

(***************************************************************************)
(* State                                                                   *)
(***************************************************************************)
VARIABLES
    player,            \* useState, lines 317-327
    tractor,           \* lines 329-341
    plow,              \* lines 343-347
    seeder,            \* lines 349-353
    combineHarvester,  \* lines 355-366
    world,             \* line 368, filled by generateWorld
    keys,              \* line 381: the keys read by the movement handlers
    selectedCropType,  \* line 384
    gameTime,          \* line 378, in steps of DAY_SPEED
    now,               \* Date.now()
    snap,              \* the state values captured by the registered callbacks
    emitted,           \* the showStatus messages of the last action
    err,               \* a handler threw (a read of an undefined grid row)
    ticks,             \* frames run so far
    events,            \* key and button events since the last frame
    saved,             \* the document of the store, line 541
    animationFrameId,  \* the ref of line 1237: the handle of the frame last requested
    frames,            \* the handles of the animation frames requested and not yet run
    mounted,           \* the effect of lines 1328-1331 is in place
    nextHandle,        \* the next handle requestAnimationFrame / setTimeout returns
    statusMessage,     \* useState, the text of the status line
    statusVisible,     \* useState, the status line is shown
    timers             \* the hide timers of showStatus not yet run, line 412

vars == <<player, tractor, plow, seeder, combineHarvester, world, keys,
          selectedCropType, gameTime, now, snap, emitted, err, ticks, events,
          saved, animationFrameId, frames, mounted, nextHandle,
          statusMessage, statusVisible, timers>>

\* the scheduled frames of the loop, and the status line with its timers
loop == <<animationFrameId, frames, mounted, nextHandle>>
status == <<statusMessage, statusVisible, timers>>

\* the state of the game as one record; the registered callbacks hold such a
\* record (snap), of which they read player, tractor, plow, seeder,
\* combineHarvester, world, keys and selectedCropType
Game == [player |-> player, tractor |-> tractor, plow |-> plow, seeder |-> seeder,
         combineHarvester |-> combineHarvester, world |-> world, keys |-> keys,
         selectedCropType |-> selectedCropType, gameTime |-> gameTime, now |-> now,
         emitted |-> emitted, err |-> err]

(***************************************************************************)
(* Grid accessors                                                          *)
(***************************************************************************)
InGrid(r, c) == r \in Rows /\ c \in Cols

SetTile(w, r, c, tile) == [w EXCEPT ![r][c] = tile]

\* selectedCropType + 'Seeds'
SeedKey(cropType) ==
    CASE cropType = "wheat" -> "wheatSeeds"
      [] cropType = "corn" -> "cornSeeds"
      [] cropType = "potato" -> "potatoSeeds"

\* the tile under the player's feet, lines 800-801, 825-826, 882-883
TargetX(p) == (p.x + p.width \div 2) \div TS
TargetY(p) == (p.y + p.height) \div TS

(***************************************************************************)
(* Manual field actions (key handlers).  Each runs inside a setPlayer      *)
(* updater: prevPlayer is the newest player, cworld is the world of the    *)
(* closure.  A result holds the player returned, whether setWorld was      *)
(* called and with what, the messages shown and whether a read threw.      *)
(***************************************************************************)
NoWorldChange(prevPlayer, cworld, msgs) ==
    [player |-> prevPlayer, setWorld |-> FALSE, world |-> cworld, msgs |-> msgs, err |-> FALSE]

Threw(prevPlayer, cworld) ==
    [player |-> prevPlayer, setWorld |-> FALSE, world |-> cworld, msgs |-> {}, err |-> TRUE]

handleTillSoil(prevPlayer, cworld) ==
    IF prevPlayer.isInVehicle
    THEN NoWorldChange(prevPlayer, cworld, {})
    ELSE LET tileX == TargetX(prevPlayer)
             tileY == TargetY(prevPlayer)
         IN IF ~(tileY < WORLD_HEIGHT_TILES /\ tileX < WORLD_WIDTH_TILES)
            THEN NoWorldChange(prevPlayer, cworld, {})
            ELSE LET hit == InGrid(tileY, tileX) /\ cworld[tileY][tileX].type \in {GRASS, DIRT}
                     newWorld == IF hit
                                 THEN SetTile(cworld, tileY, tileX,
                                              [cworld[tileY][tileX] EXCEPT !.type = TILLED])
                                 ELSE cworld
                 IN [player |-> prevPlayer, setWorld |-> TRUE, world |-> newWorld,
                     msgs |-> IF hit THEN {"Tilled soil"} ELSE {}, err |-> FALSE]

handlePlantCrop(prevPlayer, cworld, cselected, t) ==
    IF prevPlayer.isInVehicle
    THEN NoWorldChange(prevPlayer, cworld, {})
    ELSE LET tileX == TargetX(prevPlayer)
             tileY == TargetY(prevPlayer)
         IN IF ~(tileY < WORLD_HEIGHT_TILES /\ tileX < WORLD_WIDTH_TILES)
            THEN NoWorldChange(prevPlayer, cworld, {})
            ELSE IF ~InGrid(tileY, tileX)
            THEN Threw(prevPlayer, cworld)
            ELSE LET tile == cworld[tileY][tileX]
                     seedInventoryKey == SeedKey(cselected)
                 IN IF tile.type = TILLED /\ tile.crop = NoCrop
                    THEN IF prevPlayer.inventory[seedInventoryKey] > 0
                         THEN [player |-> [prevPlayer EXCEPT !.inventory[seedInventoryKey] = @ - 1],
                               setWorld |-> TRUE,
                               world |-> SetTile(cworld, tileY, tileX,
                                            [tile EXCEPT !.type = CROP_PLANTED,
                                                         !.crop = [type |-> cselected,
                                                                   stage |-> SEED,
                                                                   plantedTime |-> t,
                                                                   plantedTimeType |-> "number"]]),
                               msgs |-> {"planted!"}, err |-> FALSE]
                         ELSE NoWorldChange(prevPlayer, cworld, {"No seeds!"})
                    ELSE IF tile.crop # NoCrop
                    THEN NoWorldChange(prevPlayer, cworld, {"Already something here!"})
                    ELSE NoWorldChange(prevPlayer, cworld, {"Needs tilled soil!"})

handleHarvestCrop(prevPlayer, cworld) ==
    IF prevPlayer.isInVehicle
    THEN NoWorldChange(prevPlayer, cworld, {})
    ELSE LET tileX == TargetX(prevPlayer)
             tileY == TargetY(prevPlayer)
         IN IF ~(tileY < WORLD_HEIGHT_TILES /\ tileX < WORLD_WIDTH_TILES)
            THEN NoWorldChange(prevPlayer, cworld, {})
            ELSE IF ~InGrid(tileY, tileX)
            THEN Threw(prevPlayer, cworld)
            ELSE LET tile == cworld[tileY][tileX]
                 IN IF tile.type = CROP_GROWN /\ tile.crop # NoCrop /\ tile.crop.stage = MATURE
                    THEN LET harvestedCropType == tile.crop.type
                             currentCropCount == prevPlayer.inventory[harvestedCropType]
                         IN IF currentCropCount < prevPlayer.maxStorage
                            THEN [player |-> [prevPlayer EXCEPT
                                                 !.inventory[harvestedCropType] = @ + 1],
                                  setWorld |-> TRUE,
                                  world |-> SetTile(cworld, tileY, tileX,
                                               [tile EXCEPT !.type = TILLED, !.crop = NoCrop]),
                                  msgs |-> {"Harvested!"}, err |-> FALSE]
                            ELSE NoWorldChange(prevPlayer, cworld,
                                               {"Storage full! Sell crops to make space."})
                    ELSE IF tile.crop # NoCrop /\ tile.crop.stage # MATURE
                    THEN NoWorldChange(prevPlayer, cworld, {"Crop not mature yet!"})
                    ELSE NoWorldChange(prevPlayer, cworld, {"Nothing to harvest here!"})

(***************************************************************************)
(* Movement handlers, called by gameLoop with the keys of its closure      *)
(***************************************************************************)
MoveLeft(ckeys) == ckeys.a
MoveRight(ckeys) == ckeys.d
Jump(ckeys) == ckeys.w

\* lines 602-625
handlePlayerMovement(prevPlayer, ckeys) ==
    IF prevPlayer.isInVehicle
    THEN prevPlayer
    ELSE LET newVx == IF MoveLeft(ckeys) THEN -prevPlayer.speed
                      ELSE IF MoveRight(ckeys) THEN prevPlayer.speed ELSE 0
             newFacing == IF MoveLeft(ckeys) THEN "left"
                          ELSE IF MoveRight(ckeys) THEN "right" ELSE prevPlayer.facing
             jumps == Jump(ckeys) /\ prevPlayer.onGround
         IN [prevPlayer EXCEPT !.vx = newVx,
                               !.vy = IF jumps THEN -prevPlayer.jumpPower ELSE @,
                               !.onGround = IF jumps THEN FALSE ELSE @,
                               !.facing = newFacing]

\* a faulty variant: an empty tank does not stop the vehicle
VehicleMovementNoGate(prev, ckeys) ==
    IF ~prev.isInVehicle
    THEN [prev EXCEPT !.vx = 0]
    ELSE IF MoveLeft(ckeys)
    THEN [prev EXCEPT !.vx = -prev.speed, !.facing = "left",
                      !.fuel = IF prev.fuel - prev.fuelConsumption < 0
                               THEN 0 ELSE prev.fuel - prev.fuelConsumption]
    ELSE IF MoveRight(ckeys)
    THEN [prev EXCEPT !.vx = prev.speed, !.facing = "right",
                      !.fuel = IF prev.fuel - prev.fuelConsumption < 0
                               THEN 0 ELSE prev.fuel - prev.fuelConsumption]
    ELSE [prev EXCEPT !.vx = 0]

\* a faulty variant: the engine of an occupied vehicle burns fuel standing still
VehicleMovementIdling(prev, ckeys) ==
    IF ~prev.isInVehicle
    THEN [prev EXCEPT !.vx = 0]
    ELSE IF prev.fuel <= 0 /\ (MoveLeft(ckeys) \/ MoveRight(ckeys))
    THEN [prev EXCEPT !.vx = 0]
    ELSE IF MoveLeft(ckeys)
    THEN [prev EXCEPT !.vx = -prev.speed, !.facing = "left",
                      !.fuel = IF prev.fuel - prev.fuelConsumption < 0
                               THEN 0 ELSE prev.fuel - prev.fuelConsumption]
    ELSE IF MoveRight(ckeys)
    THEN [prev EXCEPT !.vx = prev.speed, !.facing = "right",
                      !.fuel = IF prev.fuel - prev.fuelConsumption < 0
                               THEN 0 ELSE prev.fuel - prev.fuelConsumption]
    ELSE [prev EXCEPT !.vx = 0,
                      !.fuel = IF prev.fuel - prev.fuelConsumption < 0
                               THEN 0 ELSE prev.fuel - prev.fuelConsumption]

\* lines 627-654 and 656-683: the same code for the tractor and the combine
VehicleMovement(prev, ckeys) ==
    IF ~prev.isInVehicle
    THEN [prev EXCEPT !.vx = 0]
    ELSE IF prev.fuel <= 0 /\ (MoveLeft(ckeys) \/ MoveRight(ckeys))
    THEN [prev EXCEPT !.vx = 0]
    ELSE IF MoveLeft(ckeys)
    THEN [prev EXCEPT !.vx = -prev.speed, !.facing = "left",
                      !.fuel = IF prev.fuel - prev.fuelConsumption < 0
                               THEN 0 ELSE prev.fuel - prev.fuelConsumption]
    ELSE IF MoveRight(ckeys)
    THEN [prev EXCEPT !.vx = prev.speed, !.facing = "right",
                      !.fuel = IF prev.fuel - prev.fuelConsumption < 0
                               THEN 0 ELSE prev.fuel - prev.fuelConsumption]
    ELSE [prev EXCEPT !.vx = 0]

\* the showStatus call of lines 637-640 and 666-669
OutOfFuelMsgs(prev, ckeys, msg) ==
    IF prev.isInVehicle /\ prev.fuel <= 0 /\ (MoveLeft(ckeys) \/ MoveRight(ckeys))
    THEN {msg} ELSE {}

handleTractorMovement(prevTractor, ckeys) == VehicleMovement(prevTractor, ckeys)

handleCombineMovement(prevCombine, ckeys) == VehicleMovement(prevCombine, ckeys)

(***************************************************************************)
(* Enter / exit a vehicle, lines 685-745.  Runs inside a setPlayer updater *)
(* with the tractor and the combine of the closure; the nested setTractor  *)
(* and setCombineHarvester updaters act on the newest vehicles.            *)
(***************************************************************************)
enterRange == 80
hitchRange == 60

\* Math.sqrt(dx^2 + dy^2), compared through its square
DistSq(p, vehicle) == (p.x - vehicle.x) * (p.x - vehicle.x) + (p.y - vehicle.y) * (p.y - vehicle.y)

InEnterRange(p, vehicle) == DistSq(p, vehicle) < (2 * enterRange) * (2 * enterRange)

\* the loop of lines 718-727 over [tractor, combineHarvester]
closestVehicle(p, ctractor, ccombine) ==
    IF InEnterRange(p, ctractor)
    THEN IF InEnterRange(p, ccombine) /\ DistSq(p, ccombine) < DistSq(p, ctractor)
         THEN "combine harvester" ELSE "tractor"
    ELSE IF InEnterRange(p, ccombine) THEN "combine harvester" ELSE "none"

\* a faulty variant: the exit leaves the vehicle marked as occupied
handleExitLeavesSeatTaken(prevPlayer, ctractor, ccombine, prevTractor, prevCombine) ==
    IF prevPlayer.isInVehicle
    THEN LET currentVehicle == IF ctractor.isInVehicle THEN "tractor"
                               ELSE IF ccombine.isInVehicle THEN "combine harvester"
                               ELSE "none"
             cv == IF currentVehicle = "tractor" THEN ctractor ELSE ccombine
         IN IF currentVehicle = "none"
            THEN [player |-> prevPlayer, tractor |-> prevTractor,
                  combineHarvester |-> prevCombine, msgs |-> {}]
            ELSE [player |-> [prevPlayer EXCEPT
                                 !.isInVehicle = FALSE,
                                 !.x = cv.x + cv.width \div 2 - prevPlayer.width \div 2,
                                 !.y = groundLevelY - prevPlayer.height,
                                 !.vx = 0, !.vy = 0, !.onGround = FALSE],
                  tractor |-> prevTractor,
                  combineHarvester |-> prevCombine,
                  msgs |-> {"Exited"}]
    ELSE LET closest == closestVehicle(prevPlayer, ctractor, ccombine)
             cv == IF closest = "tractor" THEN ctractor ELSE ccombine
         IN IF closest = "none"
            THEN [player |-> prevPlayer, tractor |-> prevTractor,
                  combineHarvester |-> prevCombine,
                  msgs |-> {"No vehicle close enough to enter!"}]
            ELSE [player |-> [prevPlayer EXCEPT
                                 !.isInVehicle = TRUE,
                                 !.x = cv.x + cv.width \div 2,
                                 !.y = cv.y + cv.height \div 2],
                  tractor |-> IF closest = "tractor"
                              THEN [prevTractor EXCEPT !.isInVehicle = TRUE]
                              ELSE prevTractor,
                  combineHarvester |-> IF closest = "combine harvester"
                                       THEN [prevCombine EXCEPT !.isInVehicle = TRUE]
                                       ELSE prevCombine,
                  msgs |-> {"Entered"}]

handleEnterExitVehicle(prevPlayer, ctractor, ccombine, prevTractor, prevCombine) ==
    IF prevPlayer.isInVehicle
    THEN LET currentVehicle == IF ctractor.isInVehicle THEN "tractor"
                               ELSE IF ccombine.isInVehicle THEN "combine harvester"
                               ELSE "none"
             cv == IF currentVehicle = "tractor" THEN ctractor ELSE ccombine
         IN IF currentVehicle = "none"
            THEN [player |-> prevPlayer, tractor |-> prevTractor,
                  combineHarvester |-> prevCombine, msgs |-> {}]
            ELSE [player |-> [prevPlayer EXCEPT
                                 !.isInVehicle = FALSE,
                                 !.x = cv.x + cv.width \div 2 - prevPlayer.width \div 2,
                                 !.y = groundLevelY - prevPlayer.height,
                                 !.vx = 0, !.vy = 0, !.onGround = FALSE],
                  tractor |-> IF currentVehicle = "tractor"
                              THEN [prevTractor EXCEPT !.isInVehicle = FALSE]
                              ELSE prevTractor,
                  combineHarvester |-> IF currentVehicle = "combine harvester"
                                       THEN [prevCombine EXCEPT !.isInVehicle = FALSE]
                                       ELSE prevCombine,
                  msgs |-> {"Exited"}]
    ELSE LET closest == closestVehicle(prevPlayer, ctractor, ccombine)
             cv == IF closest = "tractor" THEN ctractor ELSE ccombine
         IN IF closest = "none"
            THEN [player |-> prevPlayer, tractor |-> prevTractor,
                  combineHarvester |-> prevCombine,
                  msgs |-> {"No vehicle close enough to enter!"}]
            ELSE [player |-> [prevPlayer EXCEPT
                                 !.isInVehicle = TRUE,
                                 !.x = cv.x + cv.width \div 2,
                                 !.y = cv.y + cv.height \div 2],
                  tractor |-> IF closest = "tractor"
                              THEN [prevTractor EXCEPT !.isInVehicle = TRUE]
                              ELSE prevTractor,
                  combineHarvester |-> IF closest = "combine harvester"
                                       THEN [prevCombine EXCEPT !.isInVehicle = TRUE]
                                       ELSE prevCombine,
                  msgs |-> {"Entered"}]

(***************************************************************************)
(* Hitch toggle, lines 747-793.  Runs inside a setTractor updater with the *)
(* plow and the seeder of the closure.                                     *)
(***************************************************************************)
Abs(n) == IF n < 0 THEN -n ELSE n

HitchDistance(t, attachment) == Abs(t.x - attachment.x)

\* a faulty variant: the range taken between the far ends
InHitchRangeWide(t, attachment) ==
    ~attachment.isHitched /\ HitchDistance(t, attachment) < 2 * hitchRange + t.width

InHitchRange(t, attachment) ==
    ~attachment.isHitched /\ HitchDistance(t, attachment) < 2 * hitchRange

\* a faulty variant: the first attachment in range is taken
firstAttachment(t, cplow, cseeder) ==
    IF InHitchRange(t, cplow) THEN "plow"
    ELSE IF InHitchRange(t, cseeder) THEN "seeder" ELSE "none"

\* the loop of lines 768-776 over [plow, seeder]
closestAttachment(t, cplow, cseeder) ==
    IF InHitchRange(t, cplow)
    THEN IF InHitchRange(t, cseeder) /\ HitchDistance(t, cseeder) < HitchDistance(t, cplow)
         THEN "seeder" ELSE "plow"
    ELSE IF InHitchRange(t, cseeder) THEN "seeder" ELSE "none"

\* a faulty variant: the toggle also works from outside the tractor
handleHitchFromOutside(prevTractor, cplow, cseeder, prevPlow, prevSeeder) ==
    IF FALSE
    THEN [tractor |-> prevTractor, plow |-> prevPlow, seeder |-> prevSeeder,
          msgs |-> {"Must be in tractor to hitch attachments!"}]
    ELSE IF prevTractor.equipment # "none"
    THEN [tractor |-> [prevTractor EXCEPT !.equipment = "none"],
          plow |-> IF prevTractor.equipment = "plow"
                   THEN [prevPlow EXCEPT !.isHitched = FALSE] ELSE prevPlow,
          seeder |-> IF prevTractor.equipment = "seeder"
                     THEN [prevSeeder EXCEPT !.isHitched = FALSE] ELSE prevSeeder,
          msgs |-> {"Detached"}]
    ELSE LET closest == closestAttachment(prevTractor, cplow, cseeder)
         IN IF closest = "none"
            THEN [tractor |-> prevTractor, plow |-> prevPlow, seeder |-> prevSeeder,
                  msgs |-> {"No attachment close enough to hitch!"}]
            ELSE [tractor |-> [prevTractor EXCEPT !.equipment = closest],
                  plow |-> IF closest = "plow"
                           THEN [prevPlow EXCEPT !.isHitched = TRUE] ELSE prevPlow,
                  seeder |-> IF closest = "seeder"
                             THEN [prevSeeder EXCEPT !.isHitched = TRUE] ELSE prevSeeder,
                  msgs |-> {"Attached"}]

\* a faulty variant: detaching leaves the attachment marked as hitched
handleDetachKeepsFlag(prevTractor, cplow, cseeder, prevPlow, prevSeeder) ==
    IF ~prevTractor.isInVehicle
    THEN [tractor |-> prevTractor, plow |-> prevPlow, seeder |-> prevSeeder,
          msgs |-> {"Must be in tractor to hitch attachments!"}]
    ELSE IF prevTractor.equipment # "none"
    THEN [tractor |-> [prevTractor EXCEPT !.equipment = "none"],
          plow |-> prevPlow, seeder |-> prevSeeder,
          msgs |-> {"Detached"}]
    ELSE LET closest == closestAttachment(prevTractor, cplow, cseeder)
         IN IF closest = "none"
            THEN [tractor |-> prevTractor, plow |-> prevPlow, seeder |-> prevSeeder,
                  msgs |-> {"No attachment close enough to hitch!"}]
            ELSE [tractor |-> [prevTractor EXCEPT !.equipment = closest],
                  plow |-> IF closest = "plow"
                           THEN [prevPlow EXCEPT !.isHitched = TRUE] ELSE prevPlow,
                  seeder |-> IF closest = "seeder"
                             THEN [prevSeeder EXCEPT !.isHitched = TRUE] ELSE prevSeeder,
                  msgs |-> {"Attached"}]

handleHitchClosestAttachment(prevTractor, cplow, cseeder, prevPlow, prevSeeder) ==
    IF ~prevTractor.isInVehicle
    THEN [tractor |-> prevTractor, plow |-> prevPlow, seeder |-> prevSeeder,
          msgs |-> {"Must be in tractor to hitch attachments!"}]
    ELSE IF prevTractor.equipment # "none"
    THEN [tractor |-> [prevTractor EXCEPT !.equipment = "none"],
          plow |-> IF prevTractor.equipment = "plow"
                   THEN [prevPlow EXCEPT !.isHitched = FALSE] ELSE prevPlow,
          seeder |-> IF prevTractor.equipment = "seeder"
                     THEN [prevSeeder EXCEPT !.isHitched = FALSE] ELSE prevSeeder,
          msgs |-> {"Detached"}]
    ELSE LET closest == closestAttachment(prevTractor, cplow, cseeder)
         IN IF closest = "none"
            THEN [tractor |-> prevTractor, plow |-> prevPlow, seeder |-> prevSeeder,
                  msgs |-> {"No attachment close enough to hitch!"}]
            ELSE [tractor |-> [prevTractor EXCEPT !.equipment = closest],
                  plow |-> IF closest = "plow"
                           THEN [prevPlow EXCEPT !.isHitched = TRUE] ELSE prevPlow,
                  seeder |-> IF closest = "seeder"
                             THEN [prevSeeder EXCEPT !.isHitched = TRUE] ELSE prevSeeder,
                  msgs |-> {"Attached"}]

(***************************************************************************)
(* Automated field actions, called by gameLoop.  The guards and the        *)
(* footprint read the closure (tractor, plow, seeder, combineHarvester,    *)
(* player); the tiles are read and written in a setWorld updater, on the   *)
(* newest world.  A result holds the world returned and whether a read of  *)
(* an undefined row threw.                                                 *)
(***************************************************************************)
\* the number of iterations of for (i = 0; i < width / TILE_SIZE; i++)
FootprintTiles(attachment) == (attachment.width + TS - 1) \div TS

\* lines 928, 950, 1001
FootY(entity) == (entity.y + entity.height) \div TS

plowActive(ctractor) ==
    ctractor.equipment = "plow" /\ ctractor.vx # 0 /\ ctractor.fuel > 0

seederActive(ctractor) ==
    ctractor.equipment = "seeder" /\ ctractor.vx # 0 /\ ctractor.fuel > 0

combineActive(ccombine) ==
    ccombine.isInVehicle /\ ccombine.vx # 0 /\ ccombine.fuel > 0

\* lines 931-941
RECURSIVE PlowLoop(_, _, _, _)
\* a faulty variant: the column of the plow is not checked against the left edge
PlowLoopAnyColumn(acc, cplow, plowY, i) ==
    IF i >= FootprintTiles(cplow) \/ acc.err
    THEN acc
    ELSE LET plowX == (cplow.x + i * TS) \div TS
         IN IF ~(plowY < WORLD_HEIGHT_TILES /\ plowX < WORLD_WIDTH_TILES)
            THEN PlowLoop(acc, cplow, plowY, i + 1)
            ELSE IF plowY < 0 \/ plowX < 0
            THEN [acc EXCEPT !.err = TRUE]
            ELSE LET tile == acc.world[plowY][plowX]
                 IN IF tile.type \in {GRASS, DIRT} /\ tile.crop = NoCrop
                    THEN PlowLoop([acc EXCEPT !.world = SetTile(acc.world, plowY, plowX,
                                                          [tile EXCEPT !.type = TILLED])],
                                  cplow, plowY, i + 1)
                    ELSE PlowLoop(acc, cplow, plowY, i + 1)

PlowLoop(acc, cplow, plowY, i) ==
    IF i >= FootprintTiles(cplow) \/ acc.err
    THEN acc
    ELSE LET plowX == (cplow.x + i * TS) \div TS
         IN IF ~(plowY < WORLD_HEIGHT_TILES /\ plowX >= 0 /\ plowX < WORLD_WIDTH_TILES)
            THEN PlowLoop(acc, cplow, plowY, i + 1)
            ELSE IF plowY < 0
            THEN [acc EXCEPT !.err = TRUE]
            ELSE LET tile == acc.world[plowY][plowX]
                 IN IF tile.type \in {GRASS, DIRT} /\ tile.crop = NoCrop
                    THEN PlowLoop([acc EXCEPT !.world = SetTile(acc.world, plowY, plowX,
                                                          [tile EXCEPT !.type = TILLED])],
                                  cplow, plowY, i + 1)
                    ELSE PlowLoop(acc, cplow, plowY, i + 1)

applyPlowAction(ctractor, cplow, prevWorld) ==
    IF ~plowActive(ctractor)
    THEN [world |-> prevWorld, err |-> FALSE]
    ELSE PlowLoop([world |-> prevWorld, err |-> FALSE], cplow, FootY(cplow), 0)

\* lines 954-983
RECURSIVE SeederLoop(_, _, _, _, _, _, _)
SeederLoop(acc, cseeder, seederY, have, cselected, t, i) ==
    IF i >= FootprintTiles(cseeder) \/ acc.err
    THEN acc
    ELSE LET seederX == (cseeder.x + i * TS) \div TS
         IN IF ~(seederY < WORLD_HEIGHT_TILES /\ seederX >= 0 /\ seederX < WORLD_WIDTH_TILES)
            THEN SeederLoop(acc, cseeder, seederY, have, cselected, t, i + 1)
            ELSE IF seederY < 0
            THEN [acc EXCEPT !.err = TRUE]
            ELSE LET tile == acc.world[seederY][seederX]
                 IN IF tile.type = TILLED /\ tile.crop = NoCrop
                    THEN IF have - acc.seedsConsumed > 0
                         THEN SeederLoop(
                                [acc EXCEPT
                                   !.world = SetTile(acc.world, seederY, seederX,
                                               [tile EXCEPT !.type = CROP_PLANTED,
                                                            !.crop = [type |-> cselected,
                                                                      stage |-> SEED,
                                                                      plantedTime |-> t,
                                                                      plantedTimeType |-> "number"]]),
                                   !.seedsConsumed = @ + 1],
                                cseeder, seederY, have, cselected, t, i + 1)
                         ELSE SeederLoop([acc EXCEPT !.msgs = @ \cup {"No seeds to plant!"}],
                                         cseeder, seederY, have, cselected, t, i + 1)
                    ELSE SeederLoop(acc, cseeder, seederY, have, cselected, t, i + 1)

applySeederAction(ctractor, cseeder, cplayer, cselected, prevWorld, t) ==
    IF ~seederActive(ctractor)
    THEN [world |-> prevWorld, seedsConsumed |-> 0, msgs |-> {}, err |-> FALSE]
    ELSE SeederLoop([world |-> prevWorld, seedsConsumed |-> 0, msgs |-> {}, err |-> FALSE],
                    cseeder, FootY(cseeder), cplayer.inventory[SeedKey(cselected)],
                    cselected, t, 0)

\* lines 1005-1011
HeaderStart(ccombine) ==
    IF ccombine.facing = "right"
    THEN (ccombine.x + ccombine.width) \div TS
    ELSE (ccombine.x - 2 * TS) \div TS

HeaderEnd(ccombine) ==
    IF ccombine.facing = "right"
    THEN (ccombine.x + ccombine.width + 2 * TS) \div TS
    ELSE ccombine.x \div TS

Min(a, b) == IF a < b THEN a ELSE b
Max(a, b) == IF a > b THEN a ELSE b

\* lines 1017-1033, with the break of line 1029
RECURSIVE CombineLoop(_, _, _, _, _)
CombineLoop(acc, cplayer, combineY, x, endCol) ==
    IF x >= endCol \/ acc.err
    THEN acc
    ELSE IF ~(combineY < WORLD_HEIGHT_TILES /\ x >= 0 /\ x < WORLD_WIDTH_TILES)
    THEN CombineLoop(acc, cplayer, combineY, x + 1, endCol)
    ELSE IF combineY < 0
    THEN [acc EXCEPT !.err = TRUE]
    ELSE LET tile == acc.world[combineY][x]
         IN IF tile.type = CROP_GROWN /\ tile.crop # NoCrop /\ tile.crop.stage = MATURE
            THEN IF cplayer.inventory[tile.crop.type] + acc.harvestedCount[tile.crop.type]
                        < cplayer.maxStorage
                 THEN CombineLoop(
                        [acc EXCEPT
                           !.harvestedCount[tile.crop.type] = @ + 1,
                           !.world = SetTile(acc.world, combineY, x,
                                             [tile EXCEPT !.type = TILLED, !.crop = NoCrop])],
                        cplayer, combineY, x + 1, endCol)
                 ELSE [acc EXCEPT !.msgs = @ \cup {"Storage full! Cannot harvest more."}]
            ELSE CombineLoop(acc, cplayer, combineY, x + 1, endCol)

NoHarvest == [wheat |-> 0, corn |-> 0, potato |-> 0]

applyCombineAction(ccombine, cplayer, prevWorld) ==
    IF ~combineActive(ccombine)
    THEN [world |-> prevWorld, harvestedCount |-> NoHarvest, msgs |-> {}, err |-> FALSE]
    ELSE LET r == CombineLoop([world |-> prevWorld, harvestedCount |-> NoHarvest,
                               msgs |-> {}, err |-> FALSE],
                              cplayer, FootY(ccombine),
                              Min(HeaderStart(ccombine), HeaderEnd(ccombine)),
                              Max(HeaderStart(ccombine), HeaderEnd(ccombine)))
         IN IF r.harvestedCount # NoHarvest
            THEN [r EXCEPT !.msgs = @ \cup {"Harvested with combine!"}]
            ELSE r

(***************************************************************************)
(* Crop growth, lines 1051-1075                                            *)
(***************************************************************************)
\* a faulty variant: the tile is called grown one stage early
GrowTileEarly(tile, t) ==
    IF tile.crop # NoCrop /\ tile.type = CROP_PLANTED
    THEN IF t - tile.crop.plantedTime >= GROWTH_TIME_PER_STAGE * (tile.crop.stage + 1)
         THEN LET newStage == tile.crop.stage + 1
              IN [tile EXCEPT !.crop.stage = newStage,
                              !.type = IF newStage >= YOUNG THEN CROP_GROWN ELSE CROP_PLANTED]
         ELSE tile
    ELSE tile

\* a faulty variant: a late frame brings the crop to the stage of its age
GrowTileCatchUp(tile, t) ==
    IF tile.crop # NoCrop /\ tile.type = CROP_PLANTED
    THEN IF t - tile.crop.plantedTime >= GROWTH_TIME_PER_STAGE * (tile.crop.stage + 1)
         THEN LET reached == (t - tile.crop.plantedTime) \div GROWTH_TIME_PER_STAGE
                  newStage == IF reached >= MATURE THEN MATURE ELSE reached
              IN [tile EXCEPT !.crop.stage = newStage,
                              !.type = IF newStage >= MATURE THEN CROP_GROWN ELSE CROP_PLANTED]
         ELSE tile
    ELSE tile

GrowTile(tile, t) ==
    IF tile.crop # NoCrop /\ tile.type = CROP_PLANTED
    THEN IF t - tile.crop.plantedTime >= GROWTH_TIME_PER_STAGE * (tile.crop.stage + 1)
         THEN LET newStage == tile.crop.stage + 1
              IN [tile EXCEPT !.crop.stage = newStage,
                              !.type = IF newStage >= MATURE THEN CROP_GROWN ELSE CROP_PLANTED]
         ELSE tile
    ELSE tile

updateCropGrowth(prevWorld, t) ==
    [r \in Rows |-> [c \in Cols |-> GrowTile(prevWorld[r][c], t)]]

(***************************************************************************)
(* gameLoop, lines 1236-1304: one frame.  g is the newest state, cs the    *)
(* state gameLoop closes over.  Everything gameLoop reads directly         *)
(* (tractor, plow, seeder, combineHarvester, player, world, and through    *)
(* the handlers keys and selectedCropType) comes from cs; every            *)
(* setX(prev => ...) it queues is applied, in the order queued, to the     *)
(* newest value of X.                                                      *)
(***************************************************************************)
\* DAY_SPEED = 1 / 1800 hour per tick: gameTime counts these steps, 24 h = 43200
DAY_STEPS == 24 * 1800

\* a faulty variant: the clock is not wrapped at the end of the day
advanceGameTimeNoWrap(prevTime) == prevTime + 1

\* line 1239: prevTime => (prevTime + DAY_SPEED) % 24
advanceGameTime(prevTime) == (prevTime + 1) % DAY_STEPS

\* the hour h in steps of DAY_SPEED
Hour(h) == h * (DAY_STEPS \div 24)

\* The colours of lines 101-107, '#RRGGBB' as its six hexadecimal digits
DEEP_NIGHT_SKY_COLOR == <<1, 10, 1, 10, 2, 14>>
DAWN_SKY_COLOR == <<4, 6, 8, 2, 11, 4>>
SUNRISE_TINT_COLOR == <<15, 15, 12, 0, 12, 11>>
MORNING_SKY_COLOR == <<8, 7, 12, 14, 14, 11>>
AFTERNOON_SKY_COLOR == <<6, 10, 5, 10, 12, 13>>
SUNSET_TINT_COLOR == <<15, 15, 7, 15, 5, 0>>

\* lines 117-118: parseInt of the three pairs of digits, and the six digits
\* of (1 << 24 | r << 16 | g << 8 | b) after the leading 1
hexToRgb(hex) == <<16 * hex[1] + hex[2], 16 * hex[3] + hex[4], 16 * hex[5] + hex[6]>>
rgbToHex(r, g, b) ==
    LET n == (r * 65536 + g * 256 + b) % 16777216
    IN <<n \div 1048576, (n \div 65536) % 16, (n \div 4096) % 16,
         (n \div 256) % 16, (n \div 16) % 16, n % 16>>

\* Math.round(c1 + factor * (c2 - c1)) for factor = num / den: the nearest
\* integer, a half rounded up
LerpChannel(c1, c2, num, den) == (2 * (c1 * den + num * (c2 - c1)) + den) \div (2 * den)

\* lines 116-128, the factor given as the fraction num / den
lerpColor(color1, color2, num, den) ==
    LET rgb1 == hexToRgb(color1)
        rgb2 == hexToRgb(color2)
    IN rgbToHex(LerpChannel(rgb1[1], rgb2[1], num, den),
                LerpChannel(rgb1[2], rgb2[2], num, den),
                LerpChannel(rgb1[3], rgb2[3], num, den))

\* the branch of the if chain of getSkyColor that the time chooses, 1 to 9
SkyBranch(time) ==
    IF time >= Hour(0) /\ time < Hour(5) THEN 1
    ELSE IF time >= Hour(5) /\ time < Hour(6) THEN 2
    ELSE IF time >= Hour(6) /\ time < Hour(7) THEN 3
    ELSE IF time >= Hour(7) /\ time < Hour(9) THEN 4
    ELSE IF time >= Hour(9) /\ time < Hour(16) THEN 5
    ELSE IF time >= Hour(16) /\ time < Hour(18) THEN 6
    ELSE IF time >= Hour(18) /\ time < Hour(19) THEN 7
    ELSE IF time >= Hour(19) /\ time < Hour(21) THEN 8
    ELSE 9

\* the value that branch b of getSkyColor computes for the time
SkyValue(b, time) ==
    CASE b = 1 -> DEEP_NIGHT_SKY_COLOR
      [] b = 2 -> lerpColor(DEEP_NIGHT_SKY_COLOR, DAWN_SKY_COLOR, time - Hour(5), Hour(1))
      [] b = 3 -> lerpColor(DAWN_SKY_COLOR, SUNRISE_TINT_COLOR, time - Hour(6), Hour(1))
      [] b = 4 -> lerpColor(SUNRISE_TINT_COLOR, MORNING_SKY_COLOR, time - Hour(7), Hour(2))
      [] b = 5 -> MORNING_SKY_COLOR
      [] b = 6 -> lerpColor(MORNING_SKY_COLOR, AFTERNOON_SKY_COLOR, time - Hour(16), Hour(2))
      [] b = 7 -> lerpColor(AFTERNOON_SKY_COLOR, SUNSET_TINT_COLOR, time - Hour(18), Hour(1))
      [] b = 8 -> lerpColor(SUNSET_TINT_COLOR, DEEP_NIGHT_SKY_COLOR, time - Hour(19), Hour(2))
      [] OTHER -> DEEP_NIGHT_SKY_COLOR

\* lines 144-174
getSkyColor(time) == SkyValue(SkyBranch(time), time)

\* the light factor is kept in units of 1 / LIGHT_ONE
LIGHT_ONE == 20 * (DAY_STEPS \div 24)

\* the branch of the if chain of getAmbientLightFactor that the time chooses
LightBranch(time) ==
    IF time >= Hour(5) /\ time < Hour(7) THEN 1
    ELSE IF time >= Hour(7) /\ time < Hour(9) THEN 2
    ELSE IF time >= Hour(9) /\ time < Hour(17) THEN 3
    ELSE IF time >= Hour(17) /\ time < Hour(19) THEN 4
    ELSE IF time >= Hour(19) /\ time < Hour(21) THEN 5
    ELSE 6

\* a faulty variant: the evening branch starts from 0.6
LightValueDim(b, time) ==
    CASE b = 1 -> LIGHT_ONE \div 10 + 4 * (time - Hour(5))
      [] b = 2 -> LIGHT_ONE \div 2 + 5 * (time - Hour(7))
      [] b = 3 -> LIGHT_ONE
      [] b = 4 -> LIGHT_ONE - 5 * (time - Hour(17))
      [] b = 5 -> 6 * (LIGHT_ONE \div 10) - 4 * (time - Hour(19))
      [] OTHER -> LIGHT_ONE \div 10

\* the value that branch b of getAmbientLightFactor computes for the time:
\* (time - 5) / 2 * 0.4 is 4 units for each step of DAY_SPEED, and
\* (time - 7) / 2 * 0.5 is 5 units
LightValue(b, time) ==
    CASE b = 1 -> LIGHT_ONE \div 10 + 4 * (time - Hour(5))
      [] b = 2 -> LIGHT_ONE \div 2 + 5 * (time - Hour(7))
      [] b = 3 -> LIGHT_ONE
      [] b = 4 -> LIGHT_ONE - 5 * (time - Hour(17))
      [] b = 5 -> LIGHT_ONE \div 2 - 4 * (time - Hour(19))
      [] OTHER -> LIGHT_ONE \div 10

\* lines 177-194
getAmbientLightFactor(time) == LightValue(LightBranch(time), time)

\* lines 1241-1247: the one movement handler gameLoop calls
MovedPlayer(prev, cs) ==
    IF cs.tractor.isInVehicle \/ cs.combineHarvester.isInVehicle
    THEN prev
    ELSE handlePlayerMovement(prev, cs.keys)

\* a faulty variant: the handler of the tractor runs in every tick
MovedTractorAlways(prev, cs) == handleTractorMovement(prev, cs.keys)

MovedTractor(prev, cs) ==
    IF cs.tractor.isInVehicle THEN handleTractorMovement(prev, cs.keys) ELSE prev

MovedCombine(prev, cs) ==
    IF ~cs.tractor.isInVehicle /\ cs.combineHarvester.isInVehicle
    THEN handleCombineMovement(prev, cs.keys)
    ELSE prev

\* line 1249 then 1274-1286
TickPlayer(prev, cs) ==
    LET phys == updateEntityPosition(MovedPlayer(prev, cs), cs.world)
        cv == IF cs.tractor.isInVehicle THEN cs.tractor ELSE cs.combineHarvester
    IN IF cs.player.isInVehicle /\ (cs.tractor.isInVehicle \/ cs.combineHarvester.isInVehicle)
       THEN [phys EXCEPT !.x = cv.x + cv.width \div 2 - phys.width \div 2,
                         !.y = cv.y - phys.height]
       ELSE phys

\* line 1250
TickTractor(prev, cs) == updateEntityPosition(MovedTractor(prev, cs), cs.world)

\* line 1253
TickCombine(prev, cs) == updateEntityPosition(MovedCombine(prev, cs), cs.world)

\* lines 1261-1262: the transform of the hitched attachment
HitchedX(cs, attachment) ==
    IF cs.tractor.facing = "right"
    THEN cs.tractor.x - attachment.width - 2 * 5
    ELSE cs.tractor.x + cs.tractor.width + 2 * 5

HitchedY(cs, attachment) == cs.tractor.y + (cs.tractor.height - attachment.height)

\* lines 1251/1252, then 1255-1270, then 1271/1272, for the plow or the seeder
TickAttachment(prev, cs, cattachment, kind) ==
    LET phys == updateEntityPosition(prev, cs.world)
        towed == IF cs.tractor.isInVehicle /\ cs.tractor.equipment = kind
                 THEN [phys EXCEPT !.x = HitchedX(cs, cattachment),
                                   !.y = HitchedY(cs, cattachment),
                                   !.onGround = cs.tractor.onGround,
                                   !.vy = cs.tractor.vy]
                 ELSE phys
    IN IF ~cattachment.isHitched /\ ~cs.tractor.isInVehicle
       THEN updateEntityPosition(towed, cs.world)
       ELSE towed

\* lines 1288-1291: the setWorld updaters of the plow, the seeder and the
\* combine, in the order queued; each acts on the world the one before returned
FieldActions(cs, prevWorld, t) ==
    LET p == applyPlowAction(cs.tractor, cs.plow, prevWorld)
        s == applySeederAction(cs.tractor, cs.seeder, cs.player, cs.selectedCropType,
                               p.world, t)
        c == applyCombineAction(cs.combineHarvester, cs.player, s.world)
    IN [world |-> c.world,
        seedsConsumed |-> s.seedsConsumed,
        harvestedCount |-> c.harvestedCount,
        msgs |-> s.msgs \cup c.msgs,
        err |-> p.err \/ s.err \/ c.err]

\* the setPlayer updaters queued from inside the setWorld updaters,
\* lines 985-991 and 1036-1044
\* a faulty variant: what does not fit into the storage is dropped
CreditPlayerToStorage(p, cselected, sown, got) ==
    LET p1 == IF sown > 0
              THEN [p EXCEPT !.inventory[SeedKey(cselected)] = @ - sown]
              ELSE p
    IN IF got # NoHarvest
       THEN [p1 EXCEPT !.inventory.wheat = Min(@ + got.wheat, p.maxStorage),
                       !.inventory.corn = Min(@ + got.corn, p.maxStorage),
                       !.inventory.potato = Min(@ + got.potato, p.maxStorage)]
       ELSE p1

CreditPlayer(p, cselected, sown, got) ==
    LET p1 == IF sown > 0
              THEN [p EXCEPT !.inventory[SeedKey(cselected)] = @ - sown]
              ELSE p
    IN IF got # NoHarvest
       THEN [p1 EXCEPT !.inventory.wheat = @ + got.wheat,
                       !.inventory.corn = @ + got.corn,
                       !.inventory.potato = @ + got.potato]
       ELSE p1

\* the showStatus calls of the movement handler gameLoop picked
MoveMsgs(g, cs) ==
    IF cs.tractor.isInVehicle
    THEN OutOfFuelMsgs(g.tractor, cs.keys, "Tractor out of fuel!")
    ELSE IF cs.combineHarvester.isInVehicle
    THEN OutOfFuelMsgs(g.combineHarvester, cs.keys, "Combine out of fuel!")
    ELSE {}

\* the frame that runs dt after the last one
gameLoop(g, cs, dt) ==
    LET t == g.now + dt
        f == FieldActions(cs, g.world, t)
        g1 == [g EXCEPT !.now = t, !.gameTime = advanceGameTime(@), !.emitted = {}]
    IN IF f.err
       THEN [g1 EXCEPT !.err = TRUE]
       ELSE [g1 EXCEPT
               !.player = CreditPlayer(TickPlayer(g.player, cs), cs.selectedCropType,
                                       f.seedsConsumed, f.harvestedCount),
               !.tractor = TickTractor(g.tractor, cs),
               !.plow = TickAttachment(g.plow, cs, cs.plow, "plow"),
               !.seeder = TickAttachment(g.seeder, cs, cs.seeder, "seeder"),
               !.combineHarvester = TickCombine(g.combineHarvester, cs),
               !.world = updateCropGrowth(f.world, t),
               !.emitted = MoveMsgs(g, cs) \cup f.msgs]

(***************************************************************************)
(* The key listeners, lines 1334-1351, and the crop buttons, 2299-2305     *)
(***************************************************************************)
MoveKeys == {"a", "d", "w"}

\* what a manual field handler leaves behind
FieldResult(g, r) ==
    [g EXCEPT !.player = r.player,
              !.world = IF r.setWorld THEN r.world ELSE @,
              !.emitted = r.msgs,
              !.err = r.err]

handleKeyDown(g, cs, key) ==
    CASE key \in MoveKeys -> [g EXCEPT !.keys[key] = TRUE, !.emitted = {}]
      [] key = "e" ->
           LET r == handleEnterExitVehicle(g.player, cs.tractor, cs.combineHarvester,
                                           g.tractor, g.combineHarvester)
           IN [g EXCEPT !.player = r.player, !.tractor = r.tractor,
                        !.combineHarvester = r.combineHarvester, !.emitted = r.msgs]
      [] key = "h" ->
           LET r == handleHitchClosestAttachment(g.tractor, cs.plow, cs.seeder,
                                                 g.plow, g.seeder)
           IN [g EXCEPT !.tractor = r.tractor, !.plow = r.plow, !.seeder = r.seeder,
                        !.emitted = r.msgs]
      [] key = "f" -> FieldResult(g, handleTillSoil(g.player, cs.world))
      [] key = "g" -> FieldResult(g, handlePlantCrop(g.player, cs.world,
                                                     cs.selectedCropType, g.now))
      [] key = "j" -> FieldResult(g, handleHarvestCrop(g.player, cs.world))

handleKeyUp(g, key) ==
    IF key \in MoveKeys
    THEN [g EXCEPT !.keys[key] = FALSE, !.emitted = {}]
    ELSE [g EXCEPT !.emitted = {}]

setSelectedCropType(g, c) == [g EXCEPT !.selectedCropType = c, !.emitted = {}]

(***************************************************************************)
(* saveGame and loadGame, lines 503-599.  The document of the store has    *)
(* the fields of gameData; its world is a string, of which the model       *)
(* keeps whether JSON.parse accepts it and the tiles it then gives.        *)
(***************************************************************************)
\* lines 510-515: the tiles as they are written, plantedTime.valueOf() a number
SerializeTile(tile) ==
    IF tile.crop # NoCrop
    THEN [tile EXCEPT !.crop.plantedTimeType = "number"]
    ELSE tile

\* lines 566-571: the tiles as they are read, a number made a Date
ReviveTile(tile) ==
    IF tile.crop # NoCrop /\ tile.crop.plantedTimeType = "number"
    THEN [tile EXCEPT !.crop.plantedTimeType = "object"]
    ELSE tile

\* lines 517-538, of the values of the closure
gameData(cs) ==
    [player |-> cs.player, tractor |-> cs.tractor, plow |-> cs.plow,
     seeder |-> cs.seeder, combineHarvester |-> cs.combineHarvester,
     world |-> [r \in Rows |-> [c \in Cols |-> SerializeTile(cs.world[r][c])]],
     gameTime |-> cs.gameTime, selectedCropType |-> cs.selectedCropType]

\* what getDoc resolves to when nothing was saved: docSnap.exists() is false
\* and there is no data
NoDoc == [exists |-> FALSE, parses |-> TRUE, data |-> <<>>]

\* lines 503-547, db and userId ready and setDoc resolved
saveGame(g, cs) == [g EXCEPT !.emitted = {"Game saved successfully!"}]

\* lines 549-599 from the point getDoc has settled; rejected: getDoc threw
loadGame(g, docSnap, rejected) ==
    IF rejected
    THEN [g EXCEPT !.emitted = {"Failed to load game."}]
    ELSE IF docSnap.exists
    THEN LET loadedData == docSnap.data
             vehicles == [g EXCEPT !.player = loadedData.player,
                                   !.tractor = loadedData.tractor,
                                   !.plow = loadedData.plow,
                                   !.seeder = loadedData.seeder,
                                   !.combineHarvester = loadedData.combineHarvester]
         IN IF docSnap.parses
            THEN [vehicles EXCEPT
                     !.world = [r \in Rows |-> [c \in Cols |->
                                                   ReviveTile(loadedData.world[r][c])]],
                     !.gameTime = loadedData.gameTime,
                     !.selectedCropType = loadedData.selectedCropType,
                     !.emitted = {"Game loaded successfully!"}]
            ELSE [vehicles EXCEPT !.emitted = {"Failed to load game."}]
    ELSE [g EXCEPT !.emitted = {"No saved game found."}]

(***************************************************************************)
(* The shop and the fuel button, lines 1363-1517.  Money is in dollars     *)
(* (every price charged is whole: seeds are bought by the ten).            *)
(***************************************************************************)
CROP_PRICES == [wheat |-> 10, corn |-> 15, potato |-> 12]

\* SEED_PRICES, lines 74-78, for the 10 seeds of a purchase (line 2365)
SeedCost == [wheatSeeds |-> 20, cornSeeds |-> 30, potatoSeeds |-> 25]
SeedKinds == {"wheatSeeds", "cornSeeds", "potatoSeeds"}

SiloCost == 500

\* VEHICLE_UPGRADE_TIERS, lines 87-98: level n is entry n + 1
VEHICLE_UPGRADE_TIERS ==
    [tractor |-> <<[speed |-> 5, maxFuel |-> 10000, cost |-> 0],
                   [speed |-> 7, maxFuel |-> 15000, cost |-> 200],
                   [speed |-> 9, maxFuel |-> 20000, cost |-> 500]>>,
     combineHarvester |-> <<[speed |-> 4, maxFuel |-> 10000, cost |-> 0],
                            [speed |-> 6, maxFuel |-> 15000, cost |-> 300],
                            [speed |-> 8, maxFuel |-> 20000, cost |-> 700]>>]

\* lines 1363-1382
handleBuySeeds(g, seedType, quantity) ==
    LET seedCost == (SeedCost[seedType] \div 10) * quantity
                    + ((SeedCost[seedType] % 10) * quantity) \div 10
    IN IF g.player.money >= seedCost
       THEN [g EXCEPT !.player.money = @ - seedCost,
                      !.player.inventory[seedType] = @ + quantity,
                      !.emitted = {"Bought <quantity> <seed> seeds for $<seedCost>!"}]
       ELSE [g EXCEPT !.emitted = {"Not enough money to buy seeds!"}]

\* lines 1384-1397: the status is chosen by the vehicles of the closure
handleRefuel(g, cs) ==
    [g EXCEPT !.tractor.fuel = IF g.tractor.isInVehicle THEN g.tractor.maxFuel ELSE @,
              !.combineHarvester.fuel = IF g.combineHarvester.isInVehicle
                                        THEN g.combineHarvester.maxFuel ELSE @,
              !.emitted = IF cs.tractor.isInVehicle \/ cs.combineHarvester.isInVehicle
                          THEN {"<Vehicle> refueled!"}
                          ELSE {"No vehicle active to refuel!"}]

\* a faulty variant: a sale empties the seed counts as well
handleSellWholeInventory(g, cropTypeToSell) ==
    LET sold == IF cropTypeToSell = "all" THEN CropTypes ELSE {cropTypeToSell}
        inv == g.player.inventory
        totalSoldValue ==
            (IF "wheat" \in sold THEN inv.wheat * CROP_PRICES.wheat ELSE 0)
            + (IF "corn" \in sold THEN inv.corn * CROP_PRICES.corn ELSE 0)
            + (IF "potato" \in sold THEN inv.potato * CROP_PRICES.potato ELSE 0)
    IN [g EXCEPT !.player.money = @ + totalSoldValue,
                 !.player.inventory = [k \in DOMAIN inv |-> 0],
                 !.emitted = IF cropTypeToSell = "all"
                             THEN IF totalSoldValue > 0
                                  THEN {"Sold all crops for $<totalSoldValue>!"}
                                  ELSE {"No crops to sell!"}
                             ELSE IF inv[cropTypeToSell] > 0
                                  THEN {"Sold all <crop> for $<totalSoldValue>!"}
                                  ELSE {"No <crop> to sell!"}]

\* lines 1399-1438; cropTypeToSell is a crop kind, or "all" for no argument
handleSellCrops(g, cropTypeToSell) ==
    LET sold == IF cropTypeToSell = "all" THEN CropTypes ELSE {cropTypeToSell}
        inv == g.player.inventory
        totalSoldValue ==
            (IF "wheat" \in sold THEN inv.wheat * CROP_PRICES.wheat ELSE 0)
            + (IF "corn" \in sold THEN inv.corn * CROP_PRICES.corn ELSE 0)
            + (IF "potato" \in sold THEN inv.potato * CROP_PRICES.potato ELSE 0)
    IN [g EXCEPT !.player.money = @ + totalSoldValue,
                 !.player.inventory = [k \in DOMAIN inv |-> IF k \in sold THEN 0 ELSE inv[k]],
                 !.emitted = IF cropTypeToSell = "all"
                             THEN IF totalSoldValue > 0
                                  THEN {"Sold all crops for $<totalSoldValue>!"}
                                  ELSE {"No crops to sell!"}
                             ELSE IF inv[cropTypeToSell] > 0
                                  THEN {"Sold all <crop> for $<totalSoldValue>!"}
                                  ELSE {"No <crop> to sell!"}]

\* a faulty variant: the silo is built on a fifth of its price
handleBuildSiloOnCredit(g) ==
    IF g.player.siloBuilt
    THEN [g EXCEPT !.emitted = {"Silo already built!"}]
    ELSE IF 5 * g.player.money >= SiloCost
    THEN [g EXCEPT !.player.money = @ - SiloCost,
                   !.player.maxStorage = @ + 200,
                   !.player.siloBuilt = TRUE,
                   !.emitted = {"Silo built! Max storage increased!"}]
    ELSE [g EXCEPT !.emitted = {"Not enough money to build silo!"}]

\* lines 1440-1467
handleBuildSilo(g) ==
    IF g.player.siloBuilt
    THEN [g EXCEPT !.emitted = {"Silo already built!"}]
    ELSE IF g.player.money >= SiloCost
    THEN [g EXCEPT !.player.money = @ - SiloCost,
                   !.player.maxStorage = @ + 200,
                   !.player.siloBuilt = TRUE,
                   !.emitted = {"Silo built! Max storage increased!"}]
    ELSE [g EXCEPT !.emitted = {"Not enough money to build silo!"}]

\* the setTractor / setCombineHarvester updater of lines 1471-1492 and
\* 1494-1515: the money is the player.money of the closure, and is not charged
UpgradeOf(prev, tiers, cmoney, name) ==
    LET nextLevel == prev.upgradeLevel + 1
    IN IF nextLevel >= Len(tiers)
       THEN [vehicle |-> prev, msgs |-> {name \o " is already max level!"}]
       ELSE LET upgradeInfo == tiers[nextLevel + 1]
            IN IF cmoney >= upgradeInfo.cost
               THEN [vehicle |-> [prev EXCEPT !.speed = upgradeInfo.speed,
                                              !.maxFuel = upgradeInfo.maxFuel,
                                              !.fuel = upgradeInfo.maxFuel,
                                              !.upgradeLevel = nextLevel],
                     msgs |-> {name \o " upgraded to level <nextLevel>!"}]
               ELSE [vehicle |-> prev, msgs |-> {"Not enough money to upgrade " \o name \o "!"}]

\* lines 1469-1517
handleUpgradeVehicle(g, cs, vehicleType) ==
    IF vehicleType = "tractor"
    THEN LET u == UpgradeOf(g.tractor, VEHICLE_UPGRADE_TIERS.tractor, cs.player.money,
                          "tractor")
         IN [g EXCEPT !.tractor = u.vehicle, !.emitted = u.msgs]
    ELSE IF vehicleType = "combineHarvester"
    THEN LET u == UpgradeOf(g.combineHarvester, VEHICLE_UPGRADE_TIERS.combineHarvester,
                            cs.player.money, "Combine Harvester")
         IN [g EXCEPT !.combineHarvester = u.vehicle, !.emitted = u.msgs]
    ELSE [g EXCEPT !.emitted = {}]

(***************************************************************************)
(* Construction: the useState initial values (lines 317-384) as placed by  *)
(* generateWorld (lines 1166-1214)                                         *)
(***************************************************************************)
generateWorld ==
    [r \in Rows |-> [c \in Cols |->
        [type |-> IF r >= groundStartRow /\ r < groundStartRow + 3 THEN GRASS
                  ELSE IF r >= groundStartRow + 3 THEN DIRT
                  ELSE SKY,
         crop |-> NoCrop]]]

NewPlayer ==
    [x |-> WORLD_WIDTH_PIXELS \div 4, y |-> groundLevelY - 72,
     width |-> 36, height |-> 72, speed |-> 6, jumpPower |-> 20,
     vx |-> 0, vy |-> 0, onGround |-> FALSE, isInVehicle |-> FALSE, facing |-> "right",
     inventory |-> [wheatSeeds |-> 50, cornSeeds |-> 20, potatoSeeds |-> 20,
                    wheat |-> 0, corn |-> 0, potato |-> 0],
     money |-> 100, maxStorage |-> 100, siloBuilt |-> FALSE]

NewTractor ==
    [x |-> WORLD_WIDTH_PIXELS \div 4 + 200, y |-> groundLevelY - 100,
     width |-> 160, height |-> 100, speed |-> 5,
     vx |-> 0, vy |-> 0, onGround |-> FALSE,
     equipment |-> "none", isInVehicle |-> FALSE, type |-> "tractor", facing |-> "right",
     fuel |-> 10000, maxFuel |-> 10000, fuelConsumption |-> 5, upgradeLevel |-> 0]

NewPlow ==
    [x |-> WORLD_WIDTH_PIXELS \div 4, y |-> groundLevelY - 60,
     width |-> 120, height |-> 60,
     vx |-> 0, vy |-> 0, onGround |-> FALSE, isHitched |-> FALSE, type |-> "plow"]

NewSeeder ==
    [x |-> WORLD_WIDTH_PIXELS \div 4 + 400, y |-> groundLevelY - 72,
     width |-> 140, height |-> 72,
     vx |-> 0, vy |-> 0, onGround |-> FALSE, isHitched |-> FALSE, type |-> "seeder"]

NewCombine ==
    [x |-> WORLD_WIDTH_PIXELS \div 2 + 400, y |-> groundLevelY - 120,
     width |-> 200, height |-> 120, speed |-> 4,
     vx |-> 0, vy |-> 0, onGround |-> FALSE,
     isHitched |-> FALSE, isInVehicle |-> FALSE, type |-> "combine harvester",
     facing |-> "right",
     fuel |-> 10000, maxFuel |-> 10000, fuelConsumption |-> 7, upgradeLevel |-> 0]

NoKeys == [a |-> FALSE, d |-> FALSE, w |-> FALSE]

\* Date.now() at construction
StartTime == 20 * GROWTH_TIME_PER_STAGE

\* the state after construction, with the world generated
NewGame ==
    [player |-> NewPlayer, tractor |-> NewTractor, plow |-> NewPlow, seeder |-> NewSeeder,
     combineHarvester |-> NewCombine, world |-> generateWorld, keys |-> NoKeys,
     selectedCropType |-> "wheat", gameTime |-> 12 * 1800, now |-> StartTime,
     emitted |-> {}, err |-> FALSE]

(***************************************************************************)
(* Bounds of the model                                                     *)
(***************************************************************************)
\* frames per behaviour
MaxTicks == 2

\* key and button events between two frames
MaxEvents == 1

\* the time between two frames.  Only crop growth reads the clock, at the
\* granularity of GROWTH_TIME_PER_STAGE.
FrameGaps == {GROWTH_TIME_PER_STAGE}

(***************************************************************************)
(* Play: the state a sequence of events leaves, every frame rendered       *)
(* before the next event (the callbacks close over the state they act on). *)
(* Nothing runs once a handler has thrown.                                 *)
(***************************************************************************)
Do(g, ev) ==
    CASE ev[1] = "frame" -> gameLoop(g, g, GROWTH_TIME_PER_STAGE)
      [] ev[1] = "down" -> handleKeyDown(g, g, ev[2])
      [] ev[1] = "up" -> handleKeyUp(g, ev[2])
      [] ev[1] = "select" -> setSelectedCropType(g, ev[2])

RECURSIVE Play(_, _)
Play(g, script) ==
    IF g.err \/ script = <<>>
    THEN g
    ELSE IF Len(script) = 1
    THEN Do(g, script[1])
    ELSE LET half == Len(script) \div 2
             g1 == Play(g, SubSeq(script, 1, half))
         IN IF g1.err THEN g1 ELSE Play(g1, SubSeq(script, half + 1, Len(script)))

Frames(n) == [i \in 1 .. n |-> <<"frame", "">>]
Press(key) == <<<<"down", key>>, <<"up", key>>>>
Down(key) == <<<<"down", key>>>>
Release(key) == <<<<"up", key>>>>
Hold(key, n) == <<<<"down", key>>>> \o Frames(n) \o <<<<"up", key>>>>

(***************************************************************************)
(* Actions                                                                 *)
(***************************************************************************)
\* the state variables take the values of g
Set(g) ==
    /\ player' = g.player
    /\ tractor' = g.tractor
    /\ plow' = g.plow
    /\ seeder' = g.seeder
    /\ combineHarvester' = g.combineHarvester
    /\ world' = g.world
    /\ keys' = g.keys
    /\ selectedCropType' = g.selectedCropType
    /\ gameTime' = g.gameTime
    /\ now' = g.now
    /\ emitted' = g.emitted
    /\ err' = g.err

\* the body of gameLoop as registered, hence with the closure snap
RunLoop(dt) ==
    /\ ~err
    /\ ticks < MaxTicks
    /\ Set(gameLoop(Game, snap, dt))
    /\ ticks' = ticks + 1
    /\ events' = 0
    /\ UNCHANGED <<snap, saved>>

\* one animation frame
Tick(dt) == RunLoop(dt) /\ UNCHANGED <<loop, status>>

\* the render and the effects that follow a frame (lines 1328-1331, 1333-1360):
\* the callbacks are re-created and re-registered with the new state
Render ==
    /\ ~err
    /\ snap # [Game EXCEPT !.emitted = {}]
    /\ snap' = [Game EXCEPT !.emitted = {}]
    /\ emitted' = {}
    /\ UNCHANGED <<player, tractor, plow, seeder, combineHarvester, world, keys,
                   selectedCropType, gameTime, now, err, ticks, events, saved>>

Commit == Render /\ UNCHANGED <<loop, status>>

\* a discrete event is rendered, effects included, before anything else runs
Discrete(g) ==
    /\ ~err
    /\ events < MaxEvents
    /\ Set(g)
    /\ snap' = [g EXCEPT !.emitted = {}]
    /\ events' = events + 1
    /\ UNCHANGED <<ticks, saved, loop, status>>

\* keydown / keyup of a movement key; one movement key is held at a time, and
\* none is touched once the last frame of the behaviour has run
MoveKey(k, down) ==
    /\ ticks < MaxTicks
    /\ keys[k] # down
    /\ down => keys = NoKeys
    /\ Discrete(IF down THEN handleKeyDown(Game, snap, k) ELSE handleKeyUp(Game, k))

PressE == Discrete(handleKeyDown(Game, snap, "e"))

PressH == Discrete(handleKeyDown(Game, snap, "h"))

PressF == Discrete(handleKeyDown(Game, snap, "f"))

PressG == Discrete(handleKeyDown(Game, snap, "g"))

PressJ == Discrete(handleKeyDown(Game, snap, "j"))

\* the crop buttons pressed
Selectable == {"wheat", "corn"}

SelectCrop(c) ==
    /\ selectedCropType # c
    /\ Discrete(setSelectedCropType(Game, c))

Next ==
    \/ \E dt \in FrameGaps : Tick(dt)
    \/ Commit
    \/ \E k \in MoveKeys : \E down \in BOOLEAN : MoveKey(k, down)
    \/ PressE
    \/ PressH
    \/ PressF
    \/ PressG
    \/ PressJ
    \/ \E c \in Selectable : SelectCrop(c)

\* the buttons of the shop and the fuel button
BuySeeds(seedType) == Discrete(handleBuySeeds(Game, seedType, 10))

SellCrops(cropTypeToSell) == Discrete(handleSellCrops(Game, cropTypeToSell))

BuildSilo == Discrete(handleBuildSilo(Game))

VehicleKinds == {"tractor", "combineHarvester"}

UpgradeVehicle(vehicleType) == Discrete(handleUpgradeVehicle(Game, snap, vehicleType))

Refuel == Discrete(handleRefuel(Game, snap))

ShopNext ==
    \/ \E dt \in FrameGaps : Tick(dt)
    \/ Commit
    \/ \E seedType \in SeedKinds : BuySeeds(seedType)
    \/ \E c \in CropTypes \cup {"all"} : SellCrops(c)
    \/ BuildSilo
    \/ \E v \in VehicleKinds : UpgradeVehicle(v)
    \/ Refuel

\* the save button, line 2494: the document is made of the values of the
\* closure and replaces the one of the store
Save ==
    /\ ~err
    /\ events < MaxEvents
    /\ Set(saveGame(Game, snap))
    /\ saved' = [exists |-> TRUE, parses |-> TRUE, data |-> gameData(snap)]
    /\ snap' = [Game EXCEPT !.emitted = {}]
    /\ events' = events + 1
    /\ UNCHANGED <<ticks, loop, status>>

\* the load button, line 2497, from the point getDoc has settled: the state
\* is set outside an event, and rendered later
Load(rejected) ==
    /\ ~err
    /\ events < MaxEvents
    /\ Set(loadGame(Game, saved, rejected))
    /\ events' = events + 1
    /\ UNCHANGED <<snap, ticks, saved, loop, status>>

\* the store is not the program's alone: a document whose world is no JSON
Tamper ==
    /\ saved.exists /\ saved.parses
    /\ saved' = [saved EXCEPT !.parses = FALSE]
    /\ UNCHANGED <<player, tractor, plow, seeder, combineHarvester, world, keys,
                   selectedCropType, gameTime, now, snap, emitted, err, ticks, events,
                   loop, status>>

SaveNext ==
    \/ \E dt \in FrameGaps : Tick(dt)
    \/ Commit
    \/ \E k \in MoveKeys : \E down \in BOOLEAN : MoveKey(k, down)
    \/ Save
    \/ \E rejected \in BOOLEAN : Load(rejected)
    \/ Tamper

\* updateEntityPosition applied to the tractor alone
Resolve ==
    /\ ~err
    /\ ticks < MaxTicks
    /\ Set([Game EXCEPT !.tractor = updateEntityPosition(@, world), !.emitted = {}])
    /\ ticks' = ticks + 1
    /\ UNCHANGED <<snap, events, saved, loop, status>>

PhysNext == Resolve \/ Commit

(***************************************************************************)
(* The states a behaviour starts from: the state after construction, and   *)
(* states the game is in later, each the outcome of a play from the state  *)
(* after construction.                                                     *)
(***************************************************************************)
\* the harvests of earlier seasons in the store (seeds and money restocked
\* by trade in between)
Stocked(g, n) == [g EXCEPT !.player.inventory.wheat = n]

\* the tank of the occupied vehicle driven down to its last stroke
LowFuel(g) ==
    [g EXCEPT !.tractor.fuel = IF g.tractor.isInVehicle THEN g.tractor.fuelConsumption ELSE @,
              !.combineHarvester.fuel = IF g.combineHarvester.isInVehicle
                                        THEN g.combineHarvester.fuelConsumption ELSE @]

\* the game left alone
Rest == Play(NewGame, Frames(2))

\* on foot: wheat sown under the player, one frame old
Young == Play(NewGame, Press("f") \o Press("g") \o Frames(1))

\* on foot: ripe wheat under the player
Ripe == Play(NewGame, Press("f") \o Press("g") \o Frames(2))

\* on foot, walked up to the parked tractor
AtTractor == Play(NewGame, Hold("d", 8))

\* in the tractor, next to where it was parked
Driving == Play(NewGame, Hold("d", 8) \o Press("e") \o Frames(1))

\* in the tractor, the tank run dry on the way left
DrivingDry == Play(LowFuel(Driving), Down("a") \o Frames(1))

\* the tractor driven left to the plow, the plow just hitched, still driving
Plowing == Play(Driving, Down("a") \o Frames(17) \o Press("h") \o Frames(1))

\* a tile tilled by hand on the way to the tractor, the tractor driven right to
\* the seeder, the seeder just hitched, still driving
Seeding ==
    Play(NewGame, Hold("d", 24) \o Press("f") \o Press("e") \o Frames(1) \o
                  Down("d") \o Frames(17) \o Press("h") \o Frames(1))

\* two tiles sown by hand left of the combine, the combine entered and set
\* in motion towards them
Harvesting ==
    Play(NewGame, Hold("d", 97) \o Press("f") \o Press("g") \o
                  Hold("d", 7) \o Press("f") \o Press("g") \o
                  Press("e") \o Frames(1) \o Down("a") \o Frames(1))

\* in the combine, the tank run dry
HarvestingDry == Play(LowFuel(Play(Harvesting, <<<<"up", "a">>>>)), Down("a") \o Frames(1))

Scenes ==
    {NewGame, Young, Stocked(Ripe, 99), Stocked(Ripe, 100), AtTractor, Driving, DrivingDry, Plowing,
     Seeding, Stocked(Harvesting, 99), HarvestingDry}

\* the program in one of the situations of S, everything rendered
InitFrom(S) ==
    /\ \E g \in S :
          /\ player = g.player
          /\ tractor = g.tractor
          /\ plow = g.plow
          /\ seeder = g.seeder
          /\ combineHarvester = g.combineHarvester
          /\ world = g.world
          /\ keys = g.keys
          /\ selectedCropType = g.selectedCropType
          /\ gameTime = g.gameTime
          /\ now = g.now
          /\ snap = [g EXCEPT !.emitted = {}]
          /\ saved = NoDoc
    /\ emitted = {}
    /\ err = FALSE
    /\ ticks = 0
    /\ events = 0
    /\ mounted = TRUE
    /\ animationFrameId = 1
    /\ frames = {1}
    /\ nextHandle = 2
    /\ statusMessage = ""
    /\ statusVisible = FALSE
    /\ timers = {}

Init == InitFrom(Scenes)

Spec == Init /\ [][Next]_vars

(***************************************************************************)
(* The player has left the tractor while driving right: nothing stops the  *)
(* empty tractor, which rolls on and out of the player's reach.            *)
(***************************************************************************)
Coasting(n) == Play(Driving, Down("d") \o Frames(1) \o Press("e") \o Release("d") \o Frames(n))

CoastScenes == {Coasting(n) : n \in 42..44}

CoastInit == InitFrom(CoastScenes)

CoastSpec == CoastInit /\ [][Next]_vars

(***************************************************************************)
(* With the combine in the ripe wheat, the storage one short of full       *)
(***************************************************************************)
ReapScenes == {Stocked(Harvesting, 99)}

ReapInit == InitFrom(ReapScenes)

ReapSpec == ReapInit /\ [][Next]_vars

(***************************************************************************)
(* At the wheel of the combine, and on foot with the tractor left rolling  *)
(***************************************************************************)
SteerScenes == {Harvesting, Coasting(43)}

SteerInit == InitFrom(SteerScenes)

SteerSpec == SteerInit /\ [][Next]_vars

(***************************************************************************)
(* In the tractor where it was parked, the plow and the seeder out of      *)
(* reach on either side                                                    *)
(***************************************************************************)
ParkedScenes == {Driving}

ParkedInit == InitFrom(ParkedScenes)

ParkedSpec == ParkedInit /\ [][Next]_vars

(***************************************************************************)
(* At the edges of the grid                                                *)
(***************************************************************************)
\* the player at the top of a jump, the head above the first row
Leap == Play(NewGame, Down("w") \o Frames(11))

\* the combine driven right from where it was parked, its header beyond the
\* last column
HeaderPastEdge ==
    Play(NewGame, Hold("d", 104) \o Press("e") \o Frames(1) \o Down("d") \o Frames(2))

\* the plow towed to the left edge, then the tractor turned right, which puts
\* the plow behind it and beyond the first column
PlowPastEdge == Play(Plowing, Frames(64) \o Release("a") \o Down("d") \o Frames(2))

EdgeScenes == {Leap, HeaderPastEdge, PlowPastEdge}

EdgeInit == InitFrom(EdgeScenes)

EdgeSpec == EdgeInit /\ [][Next]_vars

(***************************************************************************)
(* At the shop: with the money of a new game, and with harvests to sell    *)
(***************************************************************************)
ShopScenes == {Rest, Stocked(Ripe, 20), Stocked(Ripe, 99), Driving}

ShopInit == InitFrom(ShopScenes)

ShopSpec == ShopInit /\ [][ShopNext]_vars

(***************************************************************************)
(* Saving and loading: with crops in the ground, and in the tractor        *)
(***************************************************************************)
SaveScenes == {Young, Ripe, Driving}

SaveInit == InitFrom(SaveScenes)

SaveSpec == SaveInit /\ [][SaveNext]_vars

(***************************************************************************)
(* Late frames: requestAnimationFrame pauses while the page is hidden, and *)
(* the next frame finds the crops older by several stages                  *)
(***************************************************************************)
\* on foot: wheat sown under the player a moment ago
Sown == Play(NewGame, Press("f") \o Press("g"))

\* the same, a few steps to the right
SownAfter(n) == Play(NewGame, Hold("d", n) \o Press("f") \o Press("g"))

LateScenes == {Sown} \cup {SownAfter(n) : n \in {8, 16}}

LateGaps == {GROWTH_TIME_PER_STAGE, 3 * GROWTH_TIME_PER_STAGE}

LateInit == InitFrom(LateScenes)

LateNext ==
    \/ \E dt \in LateGaps : Tick(dt)
    \/ Commit
    \/ \E k \in MoveKeys : \E down \in BOOLEAN : MoveKey(k, down)
    \/ PressF
    \/ PressG
    \/ PressJ

LateSpec == LateInit /\ [][LateNext]_vars

(***************************************************************************)
(* updateEntityPosition on its own: an entity anywhere over the terrain    *)
(* of generateWorld, on it, above it or partly inside it, at any speed     *)
(***************************************************************************)
Placed(x, y, vx, vy) ==
    [Rest EXCEPT !.tractor.x = x, !.tractor.y = y, !.tractor.vx = vx, !.tractor.vy = vy]

PlacedX == {0, TS, WORLD_WIDTH_PIXELS \div 2, WORLD_WIDTH_PIXELS - NewTractor.width}

PlacedY == {groundLevelY - NewTractor.height - TS, groundLevelY - NewTractor.height,
            groundLevelY - NewTractor.height + TS + TS \div 2}

PlacedV == {0 - NewTractor.speed, 0, NewTractor.speed}

PhysScenes ==
    {Placed(x, y, vx, vy) : x \in PlacedX, y \in PlacedY, vx \in PlacedV, vy \in PlacedV}

PhysInit == InitFrom(PhysScenes)

PhysSpec == PhysInit /\ [][PhysNext]_vars

(***************************************************************************)
(* In the yard: the plow towed right to the seeder and detached there, the *)
(* tractor backed up between the two                                       *)
(***************************************************************************)
Yard(k) ==
    Play(Plowing, Release("a") \o Down("d") \o Frames(54) \o Press("h") \o
                  Release("d") \o Down("a") \o Frames(k) \o Release("a"))

YardScenes == {Yard(k) : k \in {4, 10, 11, 12}}

YardInit == InitFrom(YardScenes)

YardSpec == YardInit /\ [][Next]_vars

(***************************************************************************)
(* Sowing with the seeder: two tiles tilled by hand side by side on the    *)
(* way to the tractor, the seeder hitched and drawn over both, the bag of  *)
(* wheat seeds sown by hand down to its last seeds                         *)
(***************************************************************************)
SeedsLeft(g, n) == [g EXCEPT !.player.inventory.wheatSeeds = n]

SeederOverTwo ==
    Play(NewGame, Hold("d", 24) \o Press("f") \o Hold("d", 7) \o Press("f") \o
                  Press("e") \o Frames(1) \o
                  Down("d") \o Frames(17) \o Press("h") \o Frames(1))

SowScenes == {SeedsLeft(SeederOverTwo, n) : n \in 0..3}

SowInit == InitFrom(SowScenes)

SowSpec == SowInit /\ [][Next]_vars

(***************************************************************************)
(* At the pump: a vehicle on the move with a full, a low or an empty tank, *)
(* and with the money of a harvest sold for an upgrade                     *)
(***************************************************************************)
Paid(g) == [handleSellCrops(Stocked(g, 99), "all") EXCEPT !.emitted = {}]

FuelScenes ==
    {Play(LowFuel(Driving), Down("d")), DrivingDry,
     Paid(Play(Driving, Down("d"))), Paid(Harvesting), HarvestingDry}

FuelNext ==
    \/ \E dt \in FrameGaps : Tick(dt)
    \/ Commit
    \/ \E k \in MoveKeys : \E down \in BOOLEAN : MoveKey(k, down)
    \/ PressE
    \/ \E v \in VehicleKinds : UpgradeVehicle(v)
    \/ Refuel

FuelInit == InitFrom(FuelScenes)

FuelSpec == FuelInit /\ [][FuelNext]_vars

(***************************************************************************)
(* The scheduling of the loop, lines 1237 and 1328-1331: gameLoop requests *)
(* its own next frame and keeps the handle in animationFrameId; the effect *)
(* requests a frame for each new gameLoop, and its cleanup cancels the     *)
(* frame of the handle kept                                                *)
(***************************************************************************)
MaxHandles == 8

\* a faulty variant: the cleanup of the effect cancels nothing
ReregisterNoCancel(pending, ref, handle) == pending \cup {handle}

\* the cleanup of line 1330, then the effect of line 1329
Reregister(pending, ref, handle) == (pending \ {ref}) \cup {handle}

\* the browser runs a requested frame: line 1237, then the rest of gameLoop
Frame(dt) ==
    /\ nextHandle <= MaxHandles
    /\ \E handle \in frames :
          /\ frames' = (frames \ {handle}) \cup {nextHandle}
          /\ animationFrameId' = nextHandle
          /\ nextHandle' = nextHandle + 1
    /\ RunLoop(dt)
    /\ UNCHANGED <<mounted, status>>

\* the render after a frame makes a new gameLoop, and the effect runs again
Rerender ==
    /\ mounted
    /\ nextHandle <= MaxHandles
    /\ Render
    /\ frames' = Reregister(frames, animationFrameId, nextHandle)
    /\ animationFrameId' = nextHandle
    /\ nextHandle' = nextHandle + 1
    /\ UNCHANGED <<mounted, status>>

\* a movement key goes down or up: the render makes a new gameLoop as well
LoopKey(k, down) ==
    /\ mounted
    /\ nextHandle <= MaxHandles
    /\ ~err
    /\ events < MaxEvents
    /\ keys[k] # down
    /\ down => keys = NoKeys
    /\ \E g \in {IF down THEN handleKeyDown(Game, snap, k) ELSE handleKeyUp(Game, k)} :
          Set(g) /\ snap' = [g EXCEPT !.emitted = {}]
    /\ events' = events + 1
    /\ frames' = Reregister(frames, animationFrameId, nextHandle)
    /\ animationFrameId' = nextHandle
    /\ nextHandle' = nextHandle + 1
    /\ UNCHANGED <<ticks, saved, mounted, status>>

\* the provider is taken down: the cleanup alone
Unmount ==
    /\ mounted
    /\ mounted' = FALSE
    /\ frames' = frames \ {animationFrameId}
    /\ UNCHANGED <<player, tractor, plow, seeder, combineHarvester, world, keys,
                   selectedCropType, gameTime, now, snap, emitted, err, ticks, events,
                   saved, animationFrameId, nextHandle, status>>

LoopNext ==
    \/ \E dt \in FrameGaps : Frame(dt)
    \/ Rerender
    \/ \E k \in MoveKeys : \E down \in BOOLEAN : LoopKey(k, down)
    \/ Unmount

LoopScenes == {NewGame, Driving, Harvesting}

LoopInit == InitFrom(LoopScenes)

LoopSpec == LoopInit /\ [][LoopNext]_vars

(***************************************************************************)
(* The status line (lines 409-415).  showStatus writes the message, shows  *)
(* it and starts a timer that hides the status line; the timer is never    *)
(* cleared.  A timer is its handle and the time it has left, and time      *)
(* passes in steps of TimerStep ms.  The handlers call showStatus with     *)
(* 1000 ms for their refusals and 1500 ms otherwise.                       *)
(***************************************************************************)
TimerStep == 500

ShortMessages ==
    {"No vehicle close enough to enter!", "No attachment close enough to hitch!",
     "Must be in tractor to hitch attachments!"}

\* the duration the handlers of keys e and h pass with a message
StatusDuration(message) == IF message \in ShortMessages THEN 1000 ELSE 1500

\* lines 409-415
showStatus(message, duration) ==
    /\ statusMessage' = message
    /\ statusVisible' = TRUE
    /\ timers' = timers \cup {[id |-> nextHandle, left |-> duration]}
    /\ nextHandle' = nextHandle + 1

\* no timer has run out and is waiting for its callback
NoneDue == \A t \in timers : t.left > 0

\* keydown of e or h: the handler, its status message and the render
StatusKey(k) ==
    /\ ~err
    /\ NoneDue
    /\ nextHandle <= MaxHandles
    /\ \E g \in {handleKeyDown(Game, snap, k)} :
          /\ Set(g)
          /\ snap' = [g EXCEPT !.emitted = {}]
          /\ IF g.emitted = {}
             THEN UNCHANGED <<status, nextHandle>>
             ELSE \E message \in g.emitted : showStatus(message, StatusDuration(message))
    /\ UNCHANGED <<ticks, events, saved, animationFrameId, frames, mounted>>

\* TimerStep ms pass
Elapse ==
    /\ timers # {}
    /\ NoneDue
    /\ timers' = {[t EXCEPT !.left = IF @ > TimerStep THEN @ - TimerStep ELSE 0] : t \in timers}
    /\ UNCHANGED <<player, tractor, plow, seeder, combineHarvester, world, keys,
                   selectedCropType, gameTime, now, snap, emitted, err, ticks, events,
                   saved, loop, statusMessage, statusVisible>>

\* the callback of a timer that has run out (lines 412-414)
Timeout ==
    /\ \E t \in timers :
          /\ t.left = 0
          /\ timers' = timers \ {t}
    /\ statusVisible' = FALSE
    /\ UNCHANGED <<player, tractor, plow, seeder, combineHarvester, world, keys,
                   selectedCropType, gameTime, now, snap, emitted, err, ticks, events,
                   saved, loop, statusMessage>>

StatusNext ==
    \/ \E k \in {"e", "h"} : StatusKey(k)
    \/ Elapse
    \/ Timeout

StatusScenes == {NewGame, AtTractor, Driving}

StatusInit == InitFrom(StatusScenes)

StatusSpec == StatusInit /\ [][StatusNext]_vars

(***************************************************************************)
(* The clock.  Left alone, the game is back in the situation Rest after    *)
(* every second frame but for its two clocks, so it reaches every even     *)
(* reading of gameTime.                                                    *)
(***************************************************************************)
Idle(time) == [Rest EXCEPT !.gameTime = time]

\* two frames before every full hour
DayScenes == {Idle(Hour(h) - 2) : h \in 1..24}

DayInit == InitFrom(DayScenes)

DayNext ==
    \/ \E dt \in FrameGaps : Tick(dt)
    \/ Commit

DaySpec == DayInit /\ [][DayNext]_vars

(***************************************************************************)
(* Properties                                                              *)
(***************************************************************************)
\* the tile invariant of the grid
TileOK(tile) ==
    /\ tile.crop # NoCrop => tile.type \in {CROP_PLANTED, CROP_GROWN}
    /\ tile.type = CROP_GROWN => tile.crop # NoCrop /\ tile.crop.stage = MATURE

\* C1: in every state reached from generateWorld through frames, manual
\* till / plant / harvest and the plow, seeder and combine actions, every tile
\* has a crop only if its type is CROP_PLANTED or CROP_GROWN, and a CROP_GROWN
\* tile holds a MATURE crop.
C1_TileInvariant == \A r \in Rows, c \in Cols : TileOK(world[r][c])

\* the combine has just harvested one tile and left a grown one standing
C1_Witness ==
    /\ "Harvested with combine!" \in emitted
    /\ \E r \in Rows, c \in Cols : world[r][c].type = CROP_GROWN
    /\ \E r \in Rows, c \in Cols : world[r][c].type = TILLED

\* the crop of tile (r, c) is the same planting in w1 and w2
SamePlanting(w1, w2, r, c) ==
    /\ w1[r][c].crop # NoCrop
    /\ w2[r][c].crop # NoCrop
    /\ w1[r][c].crop.type = w2[r][c].crop.type
    /\ w1[r][c].crop.plantedTime = w2[r][c].crop.plantedTime

\* C2: for a fixed tile the stage of its crop never decreases from one state
\* to the next, whatever the step.
C2_StageMonotone ==
    [][\A r \in Rows, c \in Cols :
          SamePlanting(world, world', r, c) =>
              world'[r][c].crop.stage >= world[r][c].crop.stage]_vars

\* C3: wheat that was planted at least 3 x GROWTH_TIME_PER_STAGE ago, with
\* the frames running since, stands MATURE on a CROP_GROWN tile.
C3_WheatMatureInTime ==
    \A r \in Rows, c \in Cols :
        LET tile == world[r][c]
        IN (/\ tile.crop # NoCrop
            /\ tile.crop.type = "wheat"
            /\ now - tile.crop.plantedTime >= 3 * GROWTH_TIME_PER_STAGE)
           => tile.type = CROP_GROWN /\ tile.crop.stage = MATURE

\* C4: no harvested crop kind is ever held in a larger number than maxStorage.
C4_StorageCap == \A kind \in CropTypes : player.inventory[kind] <= player.maxStorage

\* the tile the manual field handlers aim at
OnGrid(p) == InGrid(TargetY(p), TargetX(p))
TargetTile(w, p) == w[TargetY(p)][TargetX(p)]

PlantPre(w, p) ==
    OnGrid(p) /\ TargetTile(w, p).type = TILLED /\ TargetTile(w, p).crop = NoCrop

\* what key g leaves: a changed world only over a tilled, empty target tile,
\* and otherwise the same world, the same inventory and a status message
PlantOrNoop(g) ==
    /\ g.world # world => PlantPre(world, player)
    /\ ~PlantPre(world, player) =>
          g.world = world /\ g.player.inventory = player.inventory /\ g.emitted # {}

\* C5: handlePlantCrop changes a tile only when the target tile is
\* TILLED with no crop; otherwise world and inventory stay and a status
\* message is emitted.
C5_PlantOrNoop == PlantOrNoop(handleKeyDown(Game, snap, "g"))

HarvestPre(w, p) ==
    /\ OnGrid(p)
    /\ TargetTile(w, p).type = CROP_GROWN
    /\ TargetTile(w, p).crop # NoCrop
    /\ TargetTile(w, p).crop.stage = MATURE
    /\ p.inventory[TargetTile(w, p).crop.type] < p.maxStorage

\* what key j leaves: a harvest (the target tile reset, one unit more of its
\* kind) only of a ripe target tile with room in the store, and otherwise the
\* same world, the same inventory and a status message
HarvestOrNoop(g) ==
    IF g.world # world \/ g.player.inventory # player.inventory
    THEN /\ HarvestPre(world, player)
         /\ TargetTile(g.world, player) = [type |-> TILLED, crop |-> NoCrop]
         /\ g.player.inventory =
               [player.inventory EXCEPT ![TargetTile(world, player).crop.type] = @ + 1]
    ELSE g.emitted # {}

\* C6: handleHarvestCrop acts only on a CROP_GROWN, MATURE target
\* tile with the count of its kind below maxStorage, then resets the tile and
\* adds one unit; in every other case nothing changes and a status message is
\* emitted.
C6_HarvestOrNoop == HarvestOrNoop(handleKeyDown(Game, snap, "j"))

\* C7: key f over a GRASS tile leaves the world as it was but for that tile,
\* which is TILLED with no crop.
C7_TillChangesOneTile ==
    (~player.isInVehicle /\ OnGrid(player) /\ TargetTile(world, player).type = GRASS)
    => handleKeyDown(Game, snap, "f").world =
          SetTile(world, TargetY(player), TargetX(player), [type |-> TILLED, crop |-> NoCrop])

\* the entity e overlaps the tile (r, c)
Overlaps(e, r, c) ==
    /\ e.x < (c + 1) * TS
    /\ e.x + e.width > c * TS
    /\ e.y < (r + 1) * TS
    /\ e.y + e.height > r * TS

\* updateEntityPosition leaves e on no solid tile that e, moved by its
\* velocity, was not on before the collisions were resolved
NoNewOverlap(e, w) ==
    \A r \in Rows, c \in Cols :
        (w[r][c].type # SKY /\ Overlaps(updateEntityPosition(e, w), r, c))
        => Overlaps(Integrate(e), r, c)

\* C8: for every entity that the next frame hands to updateEntityPosition,
\* the resolved box overlaps no solid tile that it did not overlap before the
\* resolution.
C8_NoNewOverlap ==
    \A e \in {MovedPlayer(player, snap), MovedTractor(tractor, snap),
              MovedCombine(combineHarvester, snap), plow, seeder} :
        NoNewOverlap(e, snap.world)

\* C9: the frame after an occupied tractor or combine has run its tank empty
\* with a or d held leaves its vx = 0 and its fuel as it was, and emits the
\* out-of-fuel status.
C9_OutOfFuel ==
    \A dt \in FrameGaps :
        LET g == gameLoop(Game, snap, dt)
        IN /\ (tractor.isInVehicle /\ tractor.fuel = 0 /\ (keys.a \/ keys.d))
              => /\ g.tractor.vx = 0
                 /\ g.tractor.fuel = tractor.fuel
                 /\ "Tractor out of fuel!" \in g.emitted
           /\ (combineHarvester.isInVehicle /\ combineHarvester.fuel = 0 /\ (keys.a \/ keys.d))
              => /\ g.combineHarvester.vx = 0
                 /\ g.combineHarvester.fuel = combineHarvester.fuel
                 /\ "Combine out of fuel!" \in g.emitted

\* the tractor was stopped by its empty tank in the last frame
C9_Witness ==
    /\ "Tractor out of fuel!" \in emitted
    /\ tractor.isInVehicle
    /\ tractor.fuel = 0
    /\ tractor.vx = 0
    /\ keys.a

\* C10: key h in an occupied tractor without equipment, with no unhitched
\* attachment within hitchRange, leaves the tractor without equipment and both
\* attachments unhitched, and emits the no-attachment status.
C10_NothingToHitch ==
    (/\ tractor.isInVehicle
     /\ tractor.equipment = "none"
     /\ ~(~plow.isHitched /\ HitchDistance(tractor, plow) < 2 * hitchRange)
     /\ ~(~seeder.isHitched /\ HitchDistance(tractor, seeder) < 2 * hitchRange))
    => LET g == handleKeyDown(Game, snap, "h")
       IN /\ g.tractor.equipment = "none"
          /\ ~g.plow.isHitched
          /\ ~g.seeder.isHitched
          /\ g.emitted = {"No attachment close enough to hitch!"}

\* key h was pressed in the tractor with nothing in range
C10_Witness ==
    /\ emitted = {"No attachment close enough to hitch!"}
    /\ tractor.isInVehicle
    /\ tractor.equipment = "none"
    /\ ~plow.isHitched
    /\ ~seeder.isHitched

\* C11: gameTime is in [0, 24) hours in every state, and the next frame
\* replaces it by (gameTime + DAY_SPEED) mod 24.
C11_GameTimeInDay ==
    /\ gameTime \in 0..(DAY_STEPS - 1)
    /\ \A dt \in FrameGaps :
          gameLoop(Game, snap, dt).gameTime =
             IF gameTime + 1 = DAY_STEPS THEN 0 ELSE gameTime + 1

\* a frame has wrapped the clock to the start of the day
C11_Witness == ticks > 0 /\ gameTime = 0

\* C12: at every step of the clock that changes the branch of getSkyColor or
\* of getAmbientLightFactor (the breakpoint hours, and 24 to 0), the branch
\* that is left, continued to the new time, gives the value of the branch
\* that is entered.
C12_NoJumpAtBreakpoints ==
    LET next == advanceGameTime(gameTime)
    IN /\ SkyBranch(next) # SkyBranch(gameTime)
          => SkyValue(SkyBranch(gameTime), gameTime + 1) = getSkyColor(next)
       /\ LightBranch(next) # LightBranch(gameTime)
          => LightValue(LightBranch(gameTime), gameTime + 1) = getAmbientLightFactor(next)

\* a frame has brought the clock to the last step before 19:00, where the
\* sky leaves one blend for another and the light factor changes its slope
C12_Witness ==
    /\ ticks > 0
    /\ gameTime + 1 = Hour(19)
    /\ SkyBranch(gameTime) # SkyBranch(gameTime + 1)
    /\ LightBranch(gameTime) # LightBranch(gameTime + 1)

\* the vehicles that the player, on foot, can reach
Reachable(p, t, c) == {v \in {t, c} : InEnterRange(p, v)}

\* C13: key e pressed on foot occupies the vehicle nearest to the player among
\* those within enterRange; with no vehicle within enterRange the player, the
\* tractor and the combine stay as they are and a failure status is emitted.
C13_EnterNearest ==
    ~player.isInVehicle =>
       LET g == handleKeyDown(Game, snap, "e")
           near == Reachable(player, tractor, combineHarvester)
       IN IF near = {}
          THEN /\ g.player = player
               /\ g.tractor = tractor
               /\ g.combineHarvester = combineHarvester
               /\ g.emitted = {"No vehicle close enough to enter!"}
          ELSE /\ g.player.isInVehicle
               /\ \E v \in near :
                     /\ \A u \in near : DistSq(player, v) <= DistSq(player, u)
                     /\ g.tractor.isInVehicle = (v = tractor)
                     /\ g.combineHarvester.isInVehicle = (v = combineHarvester)

\* the gates of the three field actions, on a tractor and a combine
PlowGate(t) == t.equipment = "plow" /\ t.vx # 0 /\ t.fuel > 0
SeederGate(t) == t.equipment = "seeder" /\ t.vx # 0 /\ t.fuel > 0
CombineGate(c) == c.isInVehicle /\ c.vx # 0 /\ c.fuel > 0

\* C14: in the next frame the plow, the seeder and the combine change a tile
\* or the inventory only if the implement is the active one and its vehicle
\* has vx # 0 and fuel > 0; the vehicle is read as it is before the frame
\* or, failing that, as the frame leaves it.
C14_FieldActionsGated ==
    \A dt \in FrameGaps :
        LET t == now + dt
            g == gameLoop(Game, snap, dt)
            p == applyPlowAction(snap.tractor, snap.plow, world)
            s == applySeederAction(snap.tractor, snap.seeder, snap.player,
                                   snap.selectedCropType, p.world, t)
            c == applyCombineAction(snap.combineHarvester, snap.player, s.world)
        IN /\ p.world # world => PlowGate(tractor) \/ PlowGate(g.tractor)
           /\ (s.world # p.world \/ s.seedsConsumed > 0)
              => SeederGate(tractor) \/ SeederGate(g.tractor)
           /\ (c.world # s.world \/ c.harvestedCount # NoHarvest)
              => CombineGate(combineHarvester) \/ CombineGate(g.combineHarvester)

\* C15: no operation reads or writes the grid outside its rows and columns:
\* nothing has raised an exception, neither the next frame nor the keys f, g
\* and j raise one, and on foot with the target tile outside the grid these
\* keys leave the world and the player as they are.
C15_NoAccessOutsideGrid ==
    /\ ~err
    /\ \A dt \in FrameGaps : ~gameLoop(Game, snap, dt).err
    /\ \A key \in {"f", "g", "j"} :
          LET g == handleKeyDown(Game, snap, key)
          IN /\ ~g.err
             /\ (~player.isInVehicle /\ ~OnGrid(player))
                => g.world = world /\ g.player = player

\* a frame has run the plow with a part of its footprint left of the first
\* column
C15_Witness ==
    /\ ticks > 0
    /\ ~err
    /\ plowActive(snap.tractor)
    /\ snap.plow.x < 0
    /\ plow.x < 0

\* what a refused purchase must leave alone
PurchaseRefused(g) ==
    /\ ~g.err
    /\ g.emitted # {}
    /\ g.player.money = player.money
    /\ g.player.inventory = player.inventory
    /\ g.player.maxStorage = player.maxStorage
    /\ g.player.siloBuilt = player.siloBuilt
    /\ \A v \in {<<g.tractor, tractor>>, <<g.combineHarvester, combineHarvester>>} :
          /\ v[1].speed = v[2].speed
          /\ v[1].fuel = v[2].fuel
          /\ v[1].maxFuel = v[2].maxFuel
          /\ v[1].upgradeLevel = v[2].upgradeLevel

\* the price of the next level of a vehicle, if there is one
NextTier(vehicle, tiers) == tiers[vehicle.upgradeLevel + 2]

\* C16: a purchase of seeds, of the silo or of a vehicle upgrade with
\* player.money below the price emits a status message and leaves money,
\* inventory, maxStorage, siloBuilt and the speed, fuel, maxFuel and
\* upgradeLevel of the vehicles as they are.
C16_RefusedPurchase ==
    /\ \A seedType \in SeedKinds :
          player.money < SeedCost[seedType]
          => PurchaseRefused(handleBuySeeds(Game, seedType, 10))
    /\ player.money < SiloCost => PurchaseRefused(handleBuildSilo(Game))
    /\ (/\ tractor.upgradeLevel + 1 < Len(VEHICLE_UPGRADE_TIERS.tractor)
        /\ player.money < NextTier(tractor, VEHICLE_UPGRADE_TIERS.tractor).cost)
       => PurchaseRefused(handleUpgradeVehicle(Game, snap, "tractor"))
    /\ (/\ combineHarvester.upgradeLevel + 1 < Len(VEHICLE_UPGRADE_TIERS.combineHarvester)
        /\ player.money < NextTier(combineHarvester,
                                   VEHICLE_UPGRADE_TIERS.combineHarvester).cost)
       => PurchaseRefused(handleUpgradeVehicle(Game, snap, "combineHarvester"))

\* the second upgrade of the tractor was refused for want of money
C16_Witness ==
    /\ emitted = {"Not enough money to upgrade tractor!"}
    /\ tractor.upgradeLevel = 1
    /\ player.money < NextTier(tractor, VEHICLE_UPGRADE_TIERS.tractor).cost

\* C17: after saveGame and loadGame every crop has the plantedTime that was
\* saved, in the representation a planting gives it (the number of
\* Date.now()), so that the loaded tile is the tile that was saved.
C17_PlantedTimeRestored ==
    emitted = {"Game loaded successfully!"}
    => \A r \in Rows : \A c \in Cols :
          /\ world[r][c].crop.plantedTime = saved.data.world[r][c].crop.plantedTime
          /\ world[r][c].crop # NoCrop => world[r][c].crop.plantedTimeType = "number"
          /\ world[r][c] = saved.data.world[r][c]

\* C18: when loadGame finds no document, finds one whose world does not
\* parse, or getDoc fails, nothing is loaded: the player, the vehicles, the
\* attachments, the world, gameTime and the rest of the state are as before
\* the call, a status message reports the failure and nothing is thrown.
C18_NothingLoaded ==
    \A rejected \in BOOLEAN :
       LET g == loadGame(Game, saved, rejected)
       IN (rejected \/ ~saved.exists \/ ~saved.parses)
          => /\ ~g.err
             /\ g.emitted \in {{"No saved game found."}, {"Failed to load game."}}
             /\ [g EXCEPT !.emitted = emitted] = Game

\* the rider p sits on the vehicle v (lines 1279-1283)
Anchored(p, v) ==
    /\ p.x = v.x + v.width \div 2 - p.width \div 2
    /\ p.y = v.y - p.height

\* the attachment a is where the tractor of g tows it (lines 1261-1262)
Towed(a, g) == a.x = HitchedX(g, a) /\ a.y = HitchedY(g, a)

\* C19: the steps of a tick take effect in the order gameTime, input,
\* physics, hitched transform, re-anchoring of the player, field actions,
\* crop growth, each on the state the steps before it produced: at the end
\* of a tick the rider is anchored to, and the hitched attachment towed by,
\* the vehicle where the physics of that tick has put it.
C19_StepsSeeEarlierSteps ==
    \A dt \in FrameGaps :
       LET g == gameLoop(Game, snap, dt)
       IN ~g.err
          => /\ g.gameTime = advanceGameTime(gameTime)
             /\ (player.isInVehicle /\ tractor.isInVehicle)
                => Anchored(g.player, g.tractor)
             /\ (player.isInVehicle /\ ~tractor.isInVehicle /\ combineHarvester.isInVehicle)
                => Anchored(g.player, g.combineHarvester)
             /\ (tractor.isInVehicle /\ tractor.equipment = "plow") => Towed(g.plow, g)
             /\ (tractor.isInVehicle /\ tractor.equipment = "seeder") => Towed(g.seeder, g)

\* C20: one tick of updateCropGrowth raises the stage of a crop by at most
\* one, also when the crop is old enough for a later stage.
C20_OneStagePerTick ==
    \A dt \in LateGaps :
       LET g == gameLoop(Game, snap, dt)
       IN ~g.err
          => \A r \in Rows : \A c \in Cols :
                g.world[r][c].crop.stage <= world[r][c].crop.stage + 1

\* the first frame came three stage intervals after the sowing, and the crop
\* is at stage YOUNG, not yet grown, at an age that makes it MATURE
C20_Witness ==
    /\ ticks = 1
    /\ \E r \in Rows : \E c \in Cols :
          /\ world[r][c].type = CROP_PLANTED
          /\ world[r][c].crop.stage = SEED + 1
          /\ now - world[r][c].crop.plantedTime >= GROWTH_TIME_PER_STAGE * (MATURE + 1)

\* the entity e is between the walls of the world
WithinWalls(e) == 0 <= e.x /\ e.x <= WORLD_WIDTH_PIXELS - e.width

Kinematics(e) == <<e.x, e.y, e.vx, e.vy, e.onGround>>

\* C22: in every tick updateEntityPosition is applied exactly once to each
\* of the player, the tractor, the combine, the plow and the seeder, whoever
\* is occupied or hitched: an entity that is neither riding nor towed ends
\* the tick where one application puts it.
C22_PhysicsOnce ==
    \A dt \in FrameGaps :
       LET g == gameLoop(Game, snap, dt)
           Towing(kind) == snap.tractor.isInVehicle /\ snap.tractor.equipment = kind
       IN ~g.err
          => /\ g.tractor = updateEntityPosition(MovedTractor(tractor, snap), snap.world)
             /\ g.combineHarvester
                   = updateEntityPosition(MovedCombine(combineHarvester, snap), snap.world)
             /\ ~snap.player.isInVehicle
                => Kinematics(g.player)
                      = Kinematics(updateEntityPosition(MovedPlayer(player, snap), snap.world))
             /\ ~Towing("plow") => g.plow = updateEntityPosition(plow, snap.world)
             /\ ~Towing("seeder") => g.seeder = updateEntityPosition(seeder, snap.world)

\* the player p has left the vehicle v and stands at its middle, on the
\* ground reference row, at rest
ExitedFrom(p, v) ==
    /\ ~p.isInVehicle
    /\ p.x = v.x + v.width \div 2 - p.width \div 2
    /\ p.y = groundLevelY - p.height
    /\ p.vx = 0
    /\ p.vy = 0

\* C23: with the player in a vehicle, handleEnterExitVehicle clears
\* isInVehicle of the player and of the vehicle and puts the player at the
\* horizontal middle of the vehicle, on the ground reference row, with
\* vx = 0 and vy = 0.
C23_ExitAtVehicle ==
    player.isInVehicle
    => LET g == handleKeyDown(Game, snap, "e")
       IN /\ ~g.tractor.isInVehicle
          /\ ~g.combineHarvester.isInVehicle
          /\ tractor.isInVehicle => ExitedFrom(g.player, tractor)
          /\ (~tractor.isInVehicle /\ combineHarvester.isInVehicle)
             => ExitedFrom(g.player, combineHarvester)

\* C24: handleHitchClosestAttachment with nobody in the tractor changes
\* nothing (the equipment of the tractor and isHitched of both attachments
\* stay) and emits a status message.
C24_HitchNeedsDriver ==
    ~tractor.isInVehicle
    => LET g == handleKeyDown(Game, snap, "h")
       IN /\ g.emitted # {}
          /\ [g EXCEPT !.emitted = emitted] = Game

\* the toggle was refused on a tractor left with its plow hitched
C24_Witness ==
    /\ emitted = {"Must be in tractor to hitch attachments!"}
    /\ ~tractor.isInVehicle
    /\ tractor.equipment = "plow"
    /\ plow.isHitched

\* the attachments the tractor t could hitch
Hitchable(t, p, sd) ==
    {a \in {p, sd} : ~a.isHitched /\ Abs(t.x - a.x) < 2 * hitchRange}

\* C25: the hitch toggle on an occupied tractor.  Without equipment it
\* hitches the unhitched attachment of smallest |tractor.x - attachment.x|
\* among those within hitchRange, whatever the vertical distance; with
\* equipment it detaches, whatever the distance.
C25_HitchToggle ==
    tractor.isInVehicle
    => LET g == handleKeyDown(Game, snap, "h")
           near == Hitchable(tractor, plow, seeder)
           hitched == IF g.tractor.equipment = "plow" THEN plow ELSE seeder
       IN IF tractor.equipment # "none"
          THEN /\ g.tractor.equipment = "none"
               /\ tractor.equipment = "plow" => ~g.plow.isHitched
               /\ tractor.equipment = "seeder" => ~g.seeder.isHitched
          ELSE IF near = {}
          THEN /\ g.tractor.equipment = "none"
               /\ g.plow.isHitched = plow.isHitched
               /\ g.seeder.isHitched = seeder.isHitched
          ELSE /\ g.tractor.equipment \in {"plow", "seeder"}
               /\ hitched \in near
               /\ \A a \in near : Abs(tractor.x - hitched.x) <= Abs(tractor.x - a.x)
               /\ g.plow.isHitched = (g.tractor.equipment = "plow" \/ plow.isHitched)
               /\ g.seeder.isHitched = (g.tractor.equipment = "seeder" \/ seeder.isHitched)

\* the seeder was hitched with the plow in range too, but farther off
C25_Witness ==
    /\ emitted = {"Attached"}
    /\ tractor.equipment = "seeder"
    /\ seeder.isHitched
    /\ plow \in Hitchable(tractor, plow, seeder)
    /\ Abs(tractor.x - seeder.x) < Abs(tractor.x - plow.x)
    /\ seeder.y # tractor.y

\* the tiles of the world w1 that are CROP_PLANTED with the crop kind and were
\* not CROP_PLANTED in the world w0
NewlyPlanted(w0, w1, kind) ==
    {rc \in Rows \X Cols :
        /\ w0[rc[1]][rc[2]].type # CROP_PLANTED
        /\ w1[rc[1]][rc[2]].type = CROP_PLANTED
        /\ w1[rc[1]][rc[2]].crop.type = kind}

\* C26: no seed count is ever below zero, and over a tick of the game loop
\* every tile that becomes CROP_PLANTED was TILLED without a crop, and the
\* count of the seeds of each kind goes down by the number of tiles that
\* became CROP_PLANTED with that kind.
C26_SeedPerTile ==
    /\ \A kind \in CropTypes : player.inventory[SeedKey(kind)] >= 0
    /\ \A dt \in FrameGaps :
          \A h \in {gameLoop(Game, snap, dt)} :
             ~err /\ ~h.err =>
                \A kind \in CropTypes :
                   /\ \A rc \in NewlyPlanted(world, h.world, kind) :
                         /\ world[rc[1]][rc[2]].type = TILLED
                         /\ world[rc[1]][rc[2]].crop = NoCrop
                   /\ player.inventory[SeedKey(kind)] - h.player.inventory[SeedKey(kind)]
                        = Cardinality(NewlyPlanted(world, h.world, kind))

\* the tiles that carry a crop of the kind in the world w0 and none in w1
Reaped(w0, w1, kind) ==
    {rc \in {r \in Rows : w0[r] # w1[r]} \X Cols :
        /\ w0[rc[1]][rc[2]].crop.type = kind
        /\ w1[rc[1]][rc[2]].crop = NoCrop}

\* C27: over a tick of the game loop every tile that loses its crop was
\* CROP_GROWN at stage MATURE and is left TILLED, and the inventory of each
\* crop kind goes up by the number of tiles that lost a crop of that kind.
C27_HarvestCredited ==
    \A dt \in FrameGaps :
       \A h \in {gameLoop(Game, snap, dt)} :
          ~err /\ ~h.err =>
             \A kind \in CropTypes :
             \A reaped \in {Reaped(world, h.world, kind)} :
                /\ \A rc \in reaped :
                      LET tile == world[rc[1]][rc[2]]
                      IN /\ tile.type = CROP_GROWN
                         /\ tile.crop.stage = MATURE
                         /\ h.world[rc[1]][rc[2]] = [tile EXCEPT !.type = TILLED,
                                                                !.crop = NoCrop]
                /\ h.player.inventory[kind] - player.inventory[kind] = Cardinality(reaped)

\* the combine has just reaped wheat that stood ripe at the last render
C27_Witness ==
    /\ ticks >= 1
    /\ combineHarvester.isInVehicle
    /\ "Harvested with combine!" \in emitted
    /\ player.inventory.wheat > snap.player.inventory.wheat
    /\ \E rc \in Rows \X Cols :
          /\ snap.world[rc[1]][rc[2]].type = CROP_GROWN
          /\ snap.world[rc[1]][rc[2]].crop.stage = MATURE
          /\ world[rc[1]][rc[2]].type = TILLED
          /\ world[rc[1]][rc[2]].crop = NoCrop

\* the fuel the vehicle v has after a tick with the keys ckeys
FuelAfterTick(v, ckeys) ==
    IF v.isInVehicle /\ (MoveLeft(ckeys) \/ MoveRight(ckeys)) /\ v.fuel > 0
    THEN Max(0, v.fuel - v.fuelConsumption)
    ELSE v.fuel

\* the vehicle v1 has the fuel of v0, or a full tank
SameOrFull(v0, v1) == v1.fuel = v0.fuel \/ v1.fuel = v1.maxFuel

\* C28: the fuel of each vehicle is between 0 and maxFuel; a tick takes
\* fuelConsumption, down to 0 at most, from the occupied vehicle that is
\* commanded to move with fuel left, and leaves the fuel of a vehicle alone
\* otherwise; refuel and upgrade leave the fuel alone or fill the tank, and
\* the keys leave it alone.
C28_Fuel ==
    /\ 0 <= tractor.fuel /\ tractor.fuel <= tractor.maxFuel
    /\ 0 <= combineHarvester.fuel /\ combineHarvester.fuel <= combineHarvester.maxFuel
    /\ \A dt \in FrameGaps :
          \A h \in {gameLoop(Game, snap, dt)} :
             ~err /\ ~h.err =>
                /\ h.tractor.fuel = FuelAfterTick(tractor, keys)
                /\ h.combineHarvester.fuel = FuelAfterTick(combineHarvester, keys)
    /\ LET h == handleRefuel(Game, snap)
       IN /\ SameOrFull(tractor, h.tractor)
          /\ SameOrFull(combineHarvester, h.combineHarvester)
    /\ \A v \in VehicleKinds :
          LET h == handleUpgradeVehicle(Game, snap, v)
          IN /\ SameOrFull(tractor, h.tractor)
             /\ SameOrFull(combineHarvester, h.combineHarvester)
    /\ \A key \in MoveKeys \cup {"e"} :
          LET h == handleKeyDown(Game, snap, key)
          IN /\ h.tractor.fuel = tractor.fuel
             /\ h.combineHarvester.fuel = combineHarvester.fuel

\* a tick has just taken the last fuel of the tractor on the move, and
\* another has taken fuelConsumption from a tank filled by an upgrade
C28_Witness ==
    /\ ticks >= 1
    /\ tractor.isInVehicle
    /\ MoveLeft(keys) \/ MoveRight(keys)
    /\ \/ tractor.fuel = 0 /\ snap.tractor.fuel > 0
       \/ /\ tractor.upgradeLevel > 0
          /\ tractor.fuel = tractor.maxFuel - ticks * tractor.fuelConsumption

\* the entity the keys steer: the tractor if occupied, else the combine if
\* occupied, else the player
InputTarget(g) ==
    IF g.tractor.isInVehicle THEN "tractor"
    ELSE IF g.combineHarvester.isInVehicle THEN "combine harvester"
    ELSE "player"

\* C29: over a tick the movement handler acts on the one entity the keys
\* steer; the other two of player, tractor and combine come out of the tick
\* as the physics alone leaves them.
C29_OneSteered ==
    \A dt \in FrameGaps :
       \A h \in {gameLoop(Game, snap, dt)} :
       \A who \in {InputTarget(Game)} :
       \A p \in {updateEntityPosition(IF who = "player"
                                      THEN handlePlayerMovement(player, keys)
                                      ELSE player, snap.world)} :
          ~err /\ ~h.err =>
             /\ h.tractor = updateEntityPosition(IF who = "tractor"
                                                 THEN handleTractorMovement(tractor, keys)
                                                 ELSE tractor, snap.world)
             /\ h.combineHarvester =
                   updateEntityPosition(IF who = "combine harvester"
                                        THEN handleCombineMovement(combineHarvester, keys)
                                        ELSE combineHarvester, snap.world)
             /\ h.player.vx = p.vx
             /\ h.player.vy = p.vy
             /\ h.player.facing = p.facing
             /\ h.player.onGround = p.onGround
             /\ who = "player" => h.player.x = p.x /\ h.player.y = p.y

\* a tick has just set the occupied combine in motion to the left and taken
\* its fuel, the tractor and the rider as they were
C29_Witness ==
    /\ ticks >= 1
    /\ MoveLeft(keys)
    /\ combineHarvester.isInVehicle
    /\ combineHarvester.vx = -combineHarvester.speed
    /\ combineHarvester.fuel < snap.combineHarvester.fuel
    /\ tractor.fuel = snap.tractor.fuel
    /\ player.vx = snap.player.vx

\* the attachment a at the hitch of the tractor t, lines 1261-1262
AtHitch(a, t) ==
    /\ a.x = IF t.facing = "right" THEN t.x - a.width - 2 * 5 ELSE t.x + t.width + 2 * 5
    /\ a.y = t.y + t.height - a.height

\* C30: at the end of a tick in which the tractor is occupied and has
\* equipment hitched, the hitched attachment is at the hitch of the tractor
\* as that tick leaves the tractor.
C30_AtHitchAfterTick ==
    \A dt \in FrameGaps :
       LET h == gameLoop(Game, snap, dt)
       IN (~err /\ ~h.err /\ tractor.isInVehicle /\ h.tractor.isInVehicle) =>
             /\ (tractor.equipment = "plow" /\ plow.isHitched) => AtHitch(h.plow, h.tractor)
             /\ (tractor.equipment = "seeder" /\ seeder.isHitched)
                   => AtHitch(h.seeder, h.tractor)

\* the vehicle of g the player rides, lines 1276-1277
RiddenVehicle(g) == IF g.tractor.isInVehicle THEN g.tractor ELSE g.combineHarvester

\* C31: while the player is in a vehicle, a tick leaves the player centred
\* on top of that vehicle as the same tick leaves the vehicle.
C31_RiderOnVehicle ==
    \A dt \in FrameGaps :
       \A h \in {gameLoop(Game, snap, dt)} :
          (/\ ~err /\ ~h.err
           /\ player.isInVehicle
           /\ tractor.isInVehicle \/ combineHarvester.isInVehicle)
          => \A v \in {RiddenVehicle(h)} :
                /\ h.player.x = v.x + v.width \div 2 - h.player.width \div 2
                /\ h.player.y = v.y - h.player.height

\* C32: at most one frame of the loop is requested and not yet run, it is
\* the one whose handle animationFrameId keeps, and none is left once the
\* provider is taken down.
C32_OneFramePending ==
    /\ Cardinality(frames) <= 1
    /\ frames \subseteq {animationFrameId}
    /\ ~mounted => frames = {}

\* the loop has run frames and has been registered again in between, and the
\* provider has then been taken down
C32_Witness ==
    /\ ~mounted
    /\ ticks = MaxTicks
    /\ animationFrameId > MaxTicks + 1

\* the entity e has landed and does not move
Landed(e) == e.onGround /\ e.vy = 0 /\ e.vx = 0

\* C33: an entity that has landed and does not move is left by
\* updateEntityPosition where it is, on the ground.
C33_StaysAtRest ==
    \A e \in {player, tractor, plow, seeder, combineHarvester} :
       Landed(e) =>
          \A e1 \in {updateEntityPosition(e, world)} :
             e1.y = e.y /\ e1.onGround

\* C34: a tick leaves a vehicle that nobody occupies with vx = 0, and the
\* field action of such a vehicle does not fire.
C34_EmptyVehicleStops ==
    \A dt \in FrameGaps :
       \A h \in {gameLoop(Game, snap, dt)} :
          (~err /\ ~h.err) =>
             /\ ~tractor.isInVehicle =>
                   /\ h.tractor.vx = 0
                   /\ ~plowActive(h.tractor) /\ ~seederActive(h.tractor)
             /\ ~combineHarvester.isInVehicle =>
                   /\ h.combineHarvester.vx = 0
                   /\ ~combineActive(h.combineHarvester)

C36_HitchConsistent ==
    /\ (tractor.equipment # "none") = (plow.isHitched \/ seeder.isHitched)
    /\ plow.isHitched = (tractor.equipment = plow.type)
    /\ seeder.isHitched = (tractor.equipment = seeder.type)
    /\ ~(plow.isHitched /\ seeder.isHitched)

\* the seeder has just been hitched to the tractor
C36_Witness ==
    /\ emitted = {"Attached"}
    /\ tractor.equipment = "seeder"
    /\ seeder.isHitched
    /\ ~plow.isHitched

\* C37: a step that raises a vehicle's upgradeLevel by one (a successful
\* upgrade) takes exactly the cost of the new tier from player.money.
UpgradedBy(before, after, tiers, cost) ==
    /\ after.upgradeLevel = before.upgradeLevel + 1
    /\ cost = tiers[after.upgradeLevel + 1].cost

C37_UpgradeCharged ==
    [][\A cost \in 0..700 :
          (\/ UpgradedBy(tractor, tractor', VEHICLE_UPGRADE_TIERS.tractor, cost)
           \/ UpgradedBy(combineHarvester, combineHarvester',
                         VEHICLE_UPGRADE_TIERS.combineHarvester, cost))
          => player'.money = player.money - cost]_vars

\* C38: player.money is never negative, and a step that sells crops (brings
\* the counts of some crop kinds from above 0 to 0) adds to player.money the
\* sum of count times CROP_PRICES over those kinds and leaves the seed counts
\* as they were.
RECURSIVE Revenue(_, _)
Revenue(inv, kinds) ==
    IF kinds = {} THEN 0
    ELSE LET k == CHOOSE x \in kinds : TRUE
         IN inv[k] * CROP_PRICES[k] + Revenue(inv, kinds \ {k})

SoldKinds(before, after) ==
    {k \in CropTypes : before.inventory[k] > 0 /\ after.inventory[k] = 0}

C38_ShopMoney ==
    /\ [](player.money >= 0)
    /\ [][SoldKinds(player, player') # {}
          => /\ player'.money = player.money + Revenue(player.inventory, SoldKinds(player, player'))
             /\ \A k \in SeedKinds : player'.inventory[k] = player.inventory[k]]_vars

\* all crops have just been sold, and the player holds seeds
C38_Witness ==
    /\ emitted = {"Sold all crops for $<totalSoldValue>!"}
    /\ \A k \in CropTypes : player.inventory[k] = 0
    /\ \E k \in SeedKinds : player.inventory[k] > 0
    /\ player.money >= 99 * CROP_PRICES.wheat

\* C39: while the timer of the message shown last has time left, the status
\* line is visible.
LastShown == {t \in timers : t.id = nextHandle - 1}

C39_ShownForItsDuration == \A t \in LastShown : t.left > 0 => statusVisible

\* C40: on an occupied tractor with equipment, key h detaches the equipment
\* and a second key h, with the tractor where it was, hitches the same
\* attachment again.
C40_RehitchInPlace ==
    (~err /\ tractor.isInVehicle /\ tractor.equipment # "none")
    => \A detached \in {handleKeyDown(Game, snap, "h")} :
          \A again \in {handleKeyDown(detached, detached, "h")} :
             /\ detached.tractor.equipment = "none"
             /\ again.tractor.x = tractor.x
             /\ again.tractor.equipment = tractor.equipment

====
